---- MODULE Spec2Model ----
(***************************************************************************)
(* A model of the datalog package (datalog.go, the DBPred / DistinctVar    *)
(* version): the term model, unification, the per-predicate clause         *)
(* database with Assert / Retract / RetractOne, and the tabled prover      *)
(* behind Literal.Query, executed one call-stack step at a time.           *)
(*                                                                         *)
(* Object identity.  The code identifies variables, constants and          *)
(* predicates by the address of the Go object (cID, vID, pID).  The model  *)
(* uses integers for those addresses: constants are 1..9, caller-made      *)
(* variables 11..19, variables minted by shuffle are FreshBase + k,        *)
(* predicates are 101...; one more constant and one more predicate lie at  *)
(* addresses with more hexadecimal digits.                                 *)
(***************************************************************************)
EXTENDS Integers, Sequences, FiniteSets, TLC

VARIABLES
    db,      \* DBPred.database of every database predicate: pID -> Seq(Clause)
    pc,      \* "idle": no call in progress; "run": inside Literal.Query;
             \* "panic": a Go panic ended the program; "overflow": the call
             \* stack outgrew MaxStack
    table,   \* the query map of the running Query: variant tag -> subgoal
    stack,   \* the Go call stack of the running Query, innermost frame last
    fresh,   \* number of DistinctVar objects minted by the running Query
    cur,     \* the literal Query was called on
    result   \* what the last API call was and what it returned

vars == <<db, pc, table, stack, fresh, cur, result>>

(***************************************************************************)
(* Bounds of the model.                                                    *)
(***************************************************************************)
MaxDb == 3        \* clauses stored over all predicates
MaxStack == 40    \* frames on the call stack

(***************************************************************************)
(* Objects: predicates, constants, variables.                              *)
(***************************************************************************)
ancestor == 101   \* a DBPred of arity 2
triple == 102     \* a DBPred of arity 3
equals == 103     \* a DistinctPred that is no DBPred (primitive), arity 2
edge == 104       \* a DBPred of arity 2

alice == 1
bob == 2
carol == 3

VarX == 11
VarY == 12
VarZ == 13

FreshBase == 20

dave == 357       \* a constant at the address 0x165
link == 25957     \* a DistinctPred of arity 2 at the address 0x6565

Preds == {ancestor, triple, equals, edge}
DBPreds == {ancestor, triple, edge}
Consts == {alice, bob, carol}
UserVars == {VarX, VarY, VarZ}

arity(p) == IF p = triple THEN 3 ELSE 2

\* c.Head.Pred.(dbPred): the dynamic test for an embedded DBPred
IsDBPred(p) == p \in DBPreds

\* arg.(Const) / arg.(Var) type switches
IsConst(t) == t \in Consts \cup {dave}
IsVar(t) == ~IsConst(t)

\* NewLiteral / NewClause
Lit(p, args) == [Pred |-> p, Arg |-> args]
Clause(head, body) == [Head |-> head, Body |-> body]

(***************************************************************************)
(* Tags.  A tag is the string tagf prints into its buffer, character by    *)
(* character: the predicate's id in hexadecimal, then per argument a comma *)
(* and the constant's id in hexadecimal or, for the variable numbered n,   *)
(* "v" and n in decimal.                                                   *)
(***************************************************************************)
Digits == <<"0", "1", "2", "3", "4", "5", "6", "7", "8", "9",
            "a", "b", "c", "d", "e", "f">>

\* fmt.Fprintf(buf, "%x", n)
RECURSIVE hex(_)
hex(n) == IF n < 16 THEN <<Digits[n + 1]>>
          ELSE hex(n \div 16) \o <<Digits[(n % 16) + 1]>>

\* fmt.Fprintf(buf, "%d", n)
RECURSIVE dec(_)
dec(n) == IF n < 10 THEN <<Digits[n + 1]>>
          ELSE dec(n \div 10) \o <<Digits[(n % 10) + 1]>>

\* a tag that writes every variable as "v0"
VTokSame(n) == <<"v">> \o dec(0)

\* fmt.Fprintf(buf, ",v%d", num), after the comma
VTok(n) == <<"v">> \o dec(n)

\* The element of a one-element set.  Only({F(x) : x \in {e}}) is F(e) with
\* e computed once, however often F uses it.
Only(S) == CHOOSE x \in S : TRUE

RECURSIVE tagfArgs(_, _, _, _)
tagfArgs(arg, i, buf, varNum) ==
    IF i > Len(arg) THEN [buf |-> buf, varNum |-> varNum]
    ELSE IF IsConst(arg[i])
         THEN tagfArgs(arg, i + 1, buf \o <<",">> \o hex(arg[i]), varNum)
    ELSE IF arg[i] \in DOMAIN varNum
         THEN tagfArgs(arg, i + 1, buf \o <<",">> \o VTok(varNum[arg[i]]),
                       varNum)
    ELSE Only({tagfArgs(arg, i + 1, buf \o <<",">> \o VTok(vn[arg[i]]), vn) :
                 vn \in {varNum @@ (arg[i] :> Cardinality(DOMAIN varNum))}})

\* Literal.tagf with a non-nil varNum map
tagf(l, buf, varNum) == tagfArgs(l.Arg, 1, buf \o hex(l.Pred), varNum)

\* Literal.tag: the variant tag
tag(l) == tagf(l, <<>>, <<>>).buf

\* Literal.lID calls tagf with a nil map, which panics on a variable
lIDPanics(l) == \E i \in DOMAIN l.Arg : IsVar(l.Arg[i])

\* tagf with a nil varNum map on arguments that are constants
RECURSIVE lIDArgs(_, _, _)
lIDArgs(arg, i, buf) ==
    IF i > Len(arg) THEN buf
    ELSE lIDArgs(arg, i + 1, buf \o <<",">> \o hex(arg[i]))

\* Literal.lID: the identity tag of a literal without variables
lID(l) == lIDArgs(l.Arg, 1, hex(l.Pred))

RECURSIVE tagBody(_, _, _)
tagBody(body, i, st) ==
    IF i > Len(body) THEN st
    ELSE Only({tagBody(body, i + 1, s) :
                 s \in {tagf(body[i], st.buf, st.varNum)}})

\* Clause.tag: head and body written into one buffer under one varMap
clauseTag(c) == tagBody(c.Body, 1, tagf(c.Head, <<>>, <<>>)).buf

(***************************************************************************)
(* Safety.                                                                 *)
(***************************************************************************)
hasVar(l, v) == \E i \in DOMAIN l.Arg : v = l.Arg[i]

\* a safety test that passes every clause
SafeAlways(c) == TRUE

\* a safety test that looks for the head's variables in the first body
\* literal only
SafeFirst(c) ==
    \A i \in DOMAIN c.Head.Arg :
        IsVar(c.Head.Arg[i]) =>
            Len(c.Body) > 0 /\ hasVar(c.Body[1], c.Head.Arg[i])

Safe(c) ==
    \A i \in DOMAIN c.Head.Arg :
        IsVar(c.Head.Arg[i]) =>
            \E j \in DOMAIN c.Body : hasVar(c.Body[j], c.Head.Arg[i])

(***************************************************************************)
(* Environments, substitution, renaming.  An env is a function from        *)
(* variables to terms; nil and the empty env are both << >> where the code *)
(* treats them alike, and unify's nil result is Nil.                       *)
(***************************************************************************)
EmptyEnv == << >>

\* the map assignment e[v] = t
Bind(e, v, t) == [u \in (DOMAIN e) \cup {v} |-> IF u = v THEN t ELSE e[u]]

\* Literal.subst: one lookup per argument
subst(l, e) ==
    IF DOMAIN e = {} \/ Len(l.Arg) = 0 THEN l
    ELSE [Pred |-> l.Pred,
          Arg |-> [i \in 1..Len(l.Arg) |->
                     IF IsVar(l.Arg[i]) /\ l.Arg[i] \in DOMAIN e
                     THEN e[l.Arg[i]] ELSE l.Arg[i]]]

RECURSIVE shuffleArgs(_, _, _, _)
shuffleArgs(arg, i, e, n) ==
    IF i > Len(arg) THEN [e |-> e, n |-> n]
    ELSE IF IsVar(arg[i]) /\ arg[i] \notin DOMAIN e
         THEN Only({shuffleArgs(arg, i + 1, e2, n + 1) :
                      e2 \in {Bind(e, arg[i], FreshBase + n)}})
    ELSE shuffleArgs(arg, i + 1, e, n)

\* Literal.shuffle; n counts the variables minted so far
shuffle(l, e, n) == shuffleArgs(l.Arg, 1, e, n)

\* Literal.rename
renameLiteral(l, n) ==
    Only({[l |-> subst(l, s.e), n |-> s.n] : s \in {shuffle(l, EmptyEnv, n)}})

\* a drop that applies env to the body and leaves the head as it is
dropBodyOnly(c, d, e) ==
    [Head |-> c.Head,
     Body |-> [i \in 1..(Len(c.Body) - d) |-> subst(c.Body[i + d], e)]]

\* Clause.drop
drop(c, d, e) ==
    [Head |-> subst(c.Head, e),
     Body |-> [i \in 1..(Len(c.Body) - d) |-> subst(c.Body[i + d], e)]]

\* Clause.subst
clauseSubst(c, e) == IF DOMAIN e = {} THEN c ELSE drop(c, 0, e)

RECURSIVE shuffleBody(_, _, _, _)
shuffleBody(body, i, e, n) ==
    IF i > Len(body) THEN [e |-> e, n |-> n]
    ELSE Only({shuffleBody(body, i + 1, s.e, s.n) :
                 s \in {shuffle(body[i], e, n)}})

\* Clause.rename: the env is built from the body alone
rename(c, n) ==
    Only({[c |-> clauseSubst(c, s.e), n |-> s.n] :
            s \in {shuffleBody(c.Body, 1, EmptyEnv, n)}})

(***************************************************************************)
(* Unification.                                                            *)
(***************************************************************************)
RECURSIVE chase(_, _)
chase(t, e) ==
    IF IsConst(t) THEN t
    ELSE IF t \in DOMAIN e THEN chase(e[t], e)
    ELSE t

Nil == [ok |-> FALSE, e |-> EmptyEnv]

\* a unification of terms in which two different constants pass for equal
unifyTermLax(a, b, e) ==
    IF IsConst(a) /\ IsConst(b) THEN [ok |-> TRUE, e |-> e]
    ELSE IF IsConst(a) THEN [ok |-> TRUE, e |-> Bind(e, b, a)]
    ELSE [ok |-> TRUE, e |-> Bind(e, a, b)]

\* a.unify(b, e), through the double dispatch of unifyConst / unifyVar
unifyTerm(a, b, e) ==
    IF IsConst(a) /\ IsConst(b) THEN Nil                   \* const, const
    ELSE IF IsConst(a) THEN [ok |-> TRUE, e |-> Bind(e, b, a)]  \* e[b] = a
    ELSE [ok |-> TRUE, e |-> Bind(e, a, b)]                \* e[a] = b

\* a turn of the loop of unify that does not chase the two arguments
unifyArgUnchased(x, y, e) ==
    IF x = y THEN [ok |-> TRUE, e |-> e] ELSE unifyTerm(x, y, e)

\* one turn of the loop of unify: chase both arguments, unify them if they
\* differ
unifyArg(x, y, e) ==
    LET a == chase(x, e)
        b == chase(y, e)
    IN  IF a = b THEN [ok |-> TRUE, e |-> e] ELSE unifyTerm(a, b, e)

RECURSIVE unifyFrom(_, _, _, _)
unifyFrom(a, b, i, e) ==
    IF i > Len(a.Arg) THEN [ok |-> TRUE, e |-> e]
    ELSE Only({IF r.ok THEN unifyFrom(a, b, i + 1, r.e) ELSE Nil :
                 r \in {unifyArg(a.Arg[i], b.Arg[i], e)}})

unify(a, b) == IF a.Pred # b.Pred THEN Nil ELSE unifyFrom(a, b, 1, EmptyEnv)

\* resolve panics on a rule with an empty body
resolvePanics(rule) == Len(rule.Body) = 0

\* resolve(rule, fact)
resolve(rule, fact, n) ==
    Only({Only({IF u.ok
                THEN [ok |-> TRUE, c |-> drop(rule, 1, u.e), n |-> rn.n]
                ELSE [ok |-> FALSE, c |-> rule, n |-> rn.n] :
                  u \in {unify(rule.Body[1], rn.l)}}) :
            rn \in {renameLiteral(fact, n)}})

(***************************************************************************)
(* The database operations, as functions of the database and the clause.   *)
(* Each returns the error ("" for nil) and the database it leaves.         *)
(***************************************************************************)
ErrUnsafe == "datalog: can't assert unsafe clause"
ErrPrimitive == "datalog: can't modify primitive predicate"
ErrNoMatch == "datalog: retract found no matching clauses"

\* an Assert that stores the clause before it tests it
clauseAssertEager(d, c) ==
    LET stored == IF c.Head.Pred \in DOMAIN d
                  THEN [d EXCEPT ![c.Head.Pred] = Append(@, c)]
                  ELSE d
    IN  IF ~Safe(c) THEN [err |-> ErrUnsafe, db |-> stored]
        ELSE IF ~IsDBPred(c.Head.Pred) THEN [err |-> ErrPrimitive, db |-> stored]
        ELSE [err |-> "", db |-> stored]

\* an Assert that keeps the clause list a set of clauses up to renaming
clauseAssertSet(d, c) ==
    IF ~Safe(c) THEN [err |-> ErrUnsafe, db |-> d]
    ELSE IF ~IsDBPred(c.Head.Pred) THEN [err |-> ErrPrimitive, db |-> d]
    ELSE IF \E i \in DOMAIN d[c.Head.Pred] :
                clauseTag(d[c.Head.Pred][i]) = clauseTag(c)
         THEN [err |-> "", db |-> d]
    ELSE [err |-> "", db |-> [d EXCEPT ![c.Head.Pred] = Append(@, c)]]

\* Clause.Assert
clauseAssert(d, c) ==
    IF ~Safe(c) THEN [err |-> ErrUnsafe, db |-> d]
    ELSE IF ~IsDBPred(c.Head.Pred) THEN [err |-> ErrPrimitive, db |-> d]
    ELSE [err |-> "",
          db |-> [d EXCEPT ![c.Head.Pred] = Append(@, c)]]

\* a removal that closes the gap by moving every later clause up one place
shiftRemove(list, i) == SubSeq(list, 1, i - 1) \o SubSeq(list, i + 1, Len(list))

\* (*p.db())[i], (*p.db())[n-1], *p.db() = (*p.db())[n-1], nil, (*p.db())[:n-1]
swapRemove(list, i) ==
    LET n == Len(list)
    IN  SubSeq([list EXCEPT ![i] = list[n]], 1, n - 1)

\* a Retract loop without the i--: it steps over the clause it has just
\* moved into the freed place
RECURSIVE retractLoopSkip(_, _, _)
retractLoopSkip(list, i, t) ==
    IF i > Len(list) THEN list
    ELSE IF clauseTag(list[i]) = t
         THEN retractLoopSkip(swapRemove(list, i), i + 1, t)
    ELSE retractLoopSkip(list, i + 1, t)

\* a Retract loop that returns at the first match, as RetractOne's does
RECURSIVE retractLoopOne(_, _, _)
retractLoopOne(list, i, t) ==
    IF i > Len(list) THEN list
    ELSE IF clauseTag(list[i]) = t THEN swapRemove(list, i)
    ELSE retractLoopOne(list, i + 1, t)

RECURSIVE retractLoop(_, _, _)
retractLoop(list, i, t) ==
    IF i > Len(list) THEN list
    ELSE IF clauseTag(list[i]) = t
         THEN retractLoop(swapRemove(list, i), i, t)   \* i--, then i++
    ELSE retractLoop(list, i + 1, t)

\* Clause.Retract
clauseRetract(d, c) ==
    IF ~IsDBPred(c.Head.Pred) THEN [err |-> ErrPrimitive, db |-> d]
    ELSE [err |-> "",
          db |-> [d EXCEPT ![c.Head.Pred] = retractLoop(@, 1, clauseTag(c))]]

\* a RetractOne loop that does not return at the first match
retractOneLoopAll(list, i, bodyLen, t) ==
    LET left == retractLoop(list, i, t)
    IN  [found |-> Len(left) < Len(list), list |-> left]

RECURSIVE retractOneLoop(_, _, _, _)
retractOneLoop(list, i, bodyLen, t) ==
    IF i > Len(list) THEN [found |-> FALSE, list |-> list]
    ELSE IF Len(list[i].Body) = bodyLen /\ clauseTag(list[i]) = t
         THEN [found |-> TRUE, list |-> swapRemove(list, i)]
    ELSE retractOneLoop(list, i + 1, bodyLen, t)

\* a RetractOne that takes a predicate without a clause list for one with an
\* empty list
clauseRetractOneLax(d, c) ==
    IF ~IsDBPred(c.Head.Pred) THEN [err |-> ErrNoMatch, db |-> d]
    ELSE LET r == retractOneLoop(d[c.Head.Pred], 1, Len(c.Body), clauseTag(c))
         IN  IF r.found
             THEN [err |-> "", db |-> [d EXCEPT ![c.Head.Pred] = r.list]]
             ELSE [err |-> ErrNoMatch, db |-> d]

\* Clause.RetractOne
clauseRetractOne(d, c) ==
    IF ~IsDBPred(c.Head.Pred) THEN [err |-> ErrPrimitive, db |-> d]
    ELSE LET r == retractOneLoop(d[c.Head.Pred], 1, Len(c.Body), clauseTag(c))
         IN  IF r.found
             THEN [err |-> "", db |-> [d EXCEPT ![c.Head.Pred] = r.list]]
             ELSE [err |-> ErrNoMatch, db |-> d]

(***************************************************************************)
(* The prover.  A machine state m is [table, stack, fresh, pc]; a call of  *)
(* search / discovered / discoveredFact / discoveredRule is an operator    *)
(* from machine state to machine state that does the work the callee does  *)
(* before its loop and pushes the frame of that loop.  A frame is          *)
(*   [kind, sg, lit, items, i]                                              *)
(*   "search": the range over *pred.db() in search; sg is the subgoal's    *)
(*             tag, lit its target, items the clause list, i the index;    *)
(*   "fact":   the range over factsg.waiters in discoveredFact; lit is the *)
(*             fact, items the waiters as they were when the loop began;   *)
(*   "rule":   the range over simplifiedRules in discoveredRule; sg is the *)
(*             tag of rulesg, items the rules not yet handed on.           *)
(* A subgoal is referred to by its tag, the key under which the table      *)
(* holds it.                                                                *)
(***************************************************************************)
\* make(query)
makeQuery == << >>

Frame(kind, sg, lit, items) ==
    [kind |-> kind, sg |-> sg, lit |-> lit, items |-> items, i |-> 1]

\* a call: one more frame, unless the stack is full
push(m, f) ==
    IF Len(m.stack) >= MaxStack THEN [m EXCEPT !.pc = "overflow"]
    ELSE [m EXCEPT !.stack = Append(@, f)]

\* a subgoal that starts from the answers the call before has returned
newSubgoalSeeded(q, target, waiters) ==
    [t \in (DOMAIN q) \cup {tag(target)} |->
        IF t = tag(target)
        THEN [target |-> target, facts |-> result.ans, waiters |-> waiters,
              resolved |-> {}, twice |-> FALSE]
        ELSE q[t]]

\* query.newSubgoal.  resolved and twice are no fields of the code's subgoal:
\* they are the history of the calls of resolve on the subgoal's waiters and
\* facts; <<j, k>> in resolved says that the rule of the j-th waiter has been
\* resolved against the k-th fact, twice that some pair has been so again
newSubgoal(q, target, waiters) ==
    [t \in (DOMAIN q) \cup {tag(target)} |->
        IF t = tag(target)
        THEN [target |-> target, facts |-> << >>, waiters |-> waiters,
              resolved |-> {}, twice |-> FALSE]
        ELSE q[t]]

\* the history of subgoal sg after resolve(waiters[j].rule, fact)
noted(q, sg, j, fact) ==
    Only({[q EXCEPT ![sg].twice = @ \/ pair \in q[sg].resolved,
                    ![sg].resolved = @ \cup {pair}] :
            pair \in {<<j, k>> : k \in {i \in DOMAIN q[sg].facts :
                                          q[sg].facts[i] = fact}}})

\* a prover without tabling: no subgoal is ever found in the table
foundNever(q, target) == FALSE

\* a findSubgoal that finds the subgoal of the very literal only, none of a
\* variant of it
foundSame(q, target) == \E t \in DOMAIN q : q[t].target = target

\* query.findSubgoal: nil is "no such key"
foundSubgoal(q, target) == tag(target) \in DOMAIN q

\* a search that tries the first clause of the list only
searchFirst(m, target, waiters) ==
    Only({IF ~IsDBPred(target.Pred)
          THEN [m1 EXCEPT !.pc = "panic"]
          ELSE push(m1, Frame("search", tag(target), target,
                              IF db[target.Pred] = << >> THEN << >>
                              ELSE <<db[target.Pred][1]>>)) :
            m1 \in {[m EXCEPT !.table = newSubgoal(m.table, target, waiters)]}})

\* query.search, up to the start of its loop
search(m, target, waiters) ==
    Only({IF ~IsDBPred(target.Pred)
          THEN [m1 EXCEPT !.pc = "panic"]   \* primitives not yet implemented
          ELSE push(m1, Frame("search", tag(target), target, db[target.Pred])) :
            m1 \in {[m EXCEPT !.table = newSubgoal(m.table, target, waiters)]}})

\* the key under which discoveredFact files a fact
factKey(fact) == lID(fact)

\* a discoveredFact that takes every fact for new
knownNever(facts, fact) == FALSE

\* _, ok := factsg.facts[fact.lID()]
known(facts, fact) == \E i \in DOMAIN facts : factKey(facts[i]) = factKey(fact)

\* a discoveredFact whose loop starts at the second waiter
discoveredFactSkip(m, sg, fact) ==
    IF lIDPanics(fact) THEN [m EXCEPT !.pc = "panic"]
    ELSE IF known(m.table[sg].facts, fact) THEN m
    ELSE push([m EXCEPT !.table[sg].facts = Append(@, fact)],
              Frame("fact", sg, fact,
                    IF m.table[sg].waiters = << >> THEN << >>
                    ELSE Tail(m.table[sg].waiters)))

\* query.discoveredFact, up to the start of its loop
discoveredFact(m, sg, fact) ==
    IF lIDPanics(fact) THEN [m EXCEPT !.pc = "panic"]
    ELSE IF known(m.table[sg].facts, fact) THEN m
    ELSE push([m EXCEPT !.table[sg].facts = Append(@, fact)],
              Frame("fact", sg, fact, m.table[sg].waiters))

\* a discoveredRule that does not catch up on the facts known already
simplifyNone(rule, facts, i, n, out) == [rules |-> << >>, n |-> n, seen |-> {}]

\* the first loop of discoveredRule from the i-th fact on: rules is
\* simplifiedRules, seen the places of the facts resolve was called on
RECURSIVE simplify(_, _, _, _, _)
simplify(rule, facts, i, n, out) ==
    IF i > Len(facts) THEN [rules |-> out, n |-> n, seen |-> {}]
    ELSE Only({[rest EXCEPT !.seen = @ \cup {i}] :
                 rest \in {simplify(rule, facts, i + 1, r.n,
                                    IF r.ok THEN Append(out, r.c) ELSE out) :
                              r \in {resolve(rule, facts[i], n)}}})

\* a discoveredRule that registers the waiter on the subgoal the rule is for
caughtUpOnParent(m, rulesg, rule, s, caught) ==
    push([m EXCEPT !.table[rulesg].waiters =
                       Append(@, [subgoal |-> rulesg, rule |-> rule]),
                   !.fresh = s.n],
         Frame("rule", rulesg, rule.Body[1], s.rules))

\* a discoveredRule that catches up on the facts known but does not register
\* the waiter
caughtUpUnheard(m, rulesg, rule, s, caught) ==
    push([m EXCEPT !.fresh = s.n],
         Frame("rule", rulesg, rule.Body[1], s.rules))

\* discoveredRule with a subgoal in progress, after its first loop: the
\* waiter is registered, s is what the loop has returned and caught the pairs
\* of the waiter and a fact it has called resolve on
caughtUp(m, rulesg, rule, s, caught) ==
    LET sg == tag(rule.Body[1])
    IN  push([m EXCEPT !.table[sg].waiters =
                           Append(@, [subgoal |-> rulesg, rule |-> rule]),
                       !.table[sg].twice =
                           @ \/ caught \cap m.table[sg].resolved # {},
                       !.table[sg].resolved = @ \cup caught,
                       !.fresh = s.n],
             Frame("rule", rulesg, rule.Body[1], s.rules))

\* query.discoveredRule, up to the start of its second loop
discoveredRule(m, rulesg, rule) ==
    LET w == [subgoal |-> rulesg, rule |-> rule]
        body0 == rule.Body[1]
    IN  IF ~foundSubgoal(m.table, body0)
        THEN search(m, body0, <<w>>)
        ELSE Only({caughtUp(m, rulesg, rule, s,
                            {<<Len(m.table[tag(body0)].waiters) + 1, k>> :
                                k \in s.seen}) :
                     s \in {simplify(rule, m.table[tag(body0)].facts, 1,
                                     m.fresh, << >>)}})

\* query.discovered
discovered(m, sg, clause) ==
    IF Len(clause.Body) = 0 THEN discoveredFact(m, sg, clause.Head)
    ELSE discoveredRule(m, sg, clause)

(***************************************************************************)
(* What the caller may pass: the clauses and query literals of the tests   *)
(* (the ancestor program of TestProver, the unsafe rule of                 *)
(* TestAssertRetract, the = facts of TestAddPred) and a few more shapes.   *)
(***************************************************************************)
\* ancestor(alice, bob).
FactAB == Clause(Lit(ancestor, <<alice, bob>>), << >>)
\* ancestor(bob, carol).
FactBC == Clause(Lit(ancestor, <<bob, carol>>), << >>)
\* ancestor(X, Z) :- ancestor(X, Y), ancestor(Y, Z).
RuleTrans == Clause(Lit(ancestor, <<VarX, VarZ>>),
                    <<Lit(ancestor, <<VarX, VarY>>), Lit(ancestor, <<VarY, VarZ>>)>>)
\* triple(X, Y, bob) :- ancestor(X, Y).
RuleTriple == Clause(Lit(triple, <<VarX, VarY, bob>>),
                     <<Lit(ancestor, <<VarX, VarY>>)>>)
\* triple(Y, Z, bob) :- ancestor(Y, Z).     (a variant of RuleTriple)
RuleTripleV == Clause(Lit(triple, <<VarY, VarZ, bob>>),
                      <<Lit(ancestor, <<VarY, VarZ>>)>>)
\* ancestor(X, Y) :- triple(X, Y, Z).       (mutually recursive with RuleTriple)
RuleBack == Clause(Lit(ancestor, <<VarX, VarY>>),
                   <<Lit(triple, <<VarX, VarY, VarZ>>)>>)
\* ancestor(X, X) :- ancestor(alice, alice).   (unsafe)
UnsafeRule == Clause(Lit(ancestor, <<VarX, VarX>>),
                     <<Lit(ancestor, <<alice, alice>>)>>)
\* ancestor(X, bob) :- ancestor(Y, bob).       (unsafe: p(X) :- q(Y))
UnsafeRule2 == Clause(Lit(ancestor, <<VarX, bob>>),
                      <<Lit(ancestor, <<VarY, bob>>)>>)
\* ancestor(X, bob).                            (unsafe fact)
UnsafeFact == Clause(Lit(ancestor, <<VarX, bob>>), << >>)
\* =(alice, alice).
PrimFact == Clause(Lit(equals, <<alice, alice>>), << >>)
\* =(X, Y) :- ancestor(X, Y).
PrimRule == Clause(Lit(equals, <<VarX, VarY>>),
                   <<Lit(ancestor, <<VarX, VarY>>)>>)
\* =(X, alice).                                 (unsafe, primitive head)
PrimUnsafe == Clause(Lit(equals, <<VarX, alice>>), << >>)
\* ancestor(X, Y) :- =(X, Y).                   (equality in a rule body)
RuleEq == Clause(Lit(ancestor, <<VarX, VarY>>),
                 <<Lit(equals, <<VarX, VarY>>)>>)

ClauseU == {FactAB, FactBC, RuleTrans, RuleTriple, RuleTripleV, RuleBack,
            UnsafeRule, UnsafeRule2, UnsafeFact, PrimFact, PrimRule, PrimUnsafe,
            RuleEq}

\* ancestor(X, Y)?
QueryXY == Lit(ancestor, <<VarX, VarY>>)
\* ancestor(alice, carol)?
QueryAC == Lit(ancestor, <<alice, carol>>)
\* triple(X, X, X)?
QueryXXX == Lit(triple, <<VarX, VarX, VarX>>)
\* =(alice, alice)?
QueryEq == Lit(equals, <<alice, alice>>)

QueryU == {QueryXY, QueryAC, QueryXXX, QueryEq}

RECURSIVE SumLen(_, _)
SumLen(d, ps) ==
    IF ps = {} THEN 0
    ELSE LET p == CHOOSE q \in ps : TRUE
         IN  Len(d[p]) + SumLen(d, ps \ {p})

\* the number of clauses stored
Stored(d) == SumLen(d, DOMAIN d)

Result(op, arg, err, ans) == [op |-> op, arg |-> arg, err |-> err, ans |-> ans]

(***************************************************************************)
(* The state machine.                                                      *)
(***************************************************************************)
Init ==
    /\ db = [p \in DBPreds |-> << >>]     \* new(DBPred): database is nil
    /\ pc = "idle"
    /\ table = makeQuery
    /\ stack = << >>
    /\ fresh = 0
    /\ cur = QueryXY
    /\ result = Result("none", QueryXY, "", << >>)

\* c.Assert()
DoAssert(c) ==
    /\ pc = "idle"
    /\ (Safe(c) /\ IsDBPred(c.Head.Pred)) => Stored(db) < MaxDb
    /\ LET r == clauseAssert(db, c)
       IN  /\ db' = r.db
           /\ result' = Result("Assert", c, r.err, << >>)
    /\ UNCHANGED <<pc, table, stack, fresh, cur>>

\* c.Retract()
DoRetract(c) ==
    /\ pc = "idle"
    /\ LET r == clauseRetract(db, c)
       IN  /\ db' = r.db
           /\ result' = Result("Retract", c, r.err, << >>)
    /\ UNCHANGED <<pc, table, stack, fresh, cur>>

\* c.RetractOne()
DoRetractOne(c) ==
    /\ pc = "idle"
    /\ LET r == clauseRetractOne(db, c)
       IN  /\ db' = r.db
           /\ result' = Result("RetractOne", c, r.err, << >>)
    /\ UNCHANGED <<pc, table, stack, fresh, cur>>

Become(m) ==
    /\ table' = m.table
    /\ stack' = m.stack
    /\ fresh' = m.fresh
    /\ pc' = m.pc

Top == stack[Len(stack)]

\* the innermost frame with its loop index moved on
Advanced == [stack EXCEPT ![Len(stack)].i = @ + 1]

\* l.Query(): make(query).search(l), as far as the start of search's loop
QueryStart(l) ==
    /\ pc = "idle"
    /\ cur' = l
    /\ result' = Result("Query", l, "", << >>)
    /\ \E m \in {search([table |-> makeQuery, stack |-> << >>, fresh |-> 0,
                        pc |-> "run"], l, << >>)} :
          Become(m)
    /\ UNCHANGED db

\* a rename that renames the stored clause in place
renamedInPlace(d, p, i, c) == [d EXCEPT ![p][i] = c]

\* the database after clause.rename() of the i-th clause of p: rename builds
\* the clause c it returns and leaves the stored one as it is
afterRename(d, p, i, c) == d

\* one iteration of the loop of search
SearchStep ==
    /\ pc = "run" /\ stack # << >>
    /\ Top.kind = "search" /\ Top.i <= Len(Top.items)
    /\ \E renamed \in {rename(Top.items[Top.i], fresh)} :
          /\ db' = afterRename(db, Top.lit.Pred, Top.i, renamed.c)
          /\ \E e \in {unify(Top.lit, renamed.c.Head)} :
             \E base \in {[table |-> table, stack |-> Advanced,
                           fresh |-> renamed.n, pc |-> pc]} :
             \E clause \in {clauseSubst(renamed.c, e.e)} :
             \E m \in {IF e.ok THEN discovered(base, Top.sg, clause)
                       ELSE base} :
                Become(m)
    /\ UNCHANGED <<cur, result>>

\* a range that reads factsg.waiters anew at every iteration
rangedLive(f, q) == IF f.kind = "fact" THEN q[f.sg].waiters ELSE f.items

\* what the loop of the frame f ranges over: range reads the slice once, when
\* the loop starts
ranged(f, q) == f.items

\* one iteration of the loop of discoveredFact
FactStep ==
    /\ pc = "run" /\ stack # << >>
    /\ Top.kind = "fact" /\ Top.i <= Len(ranged(Top, table))
    /\ \E waiting \in {ranged(Top, table)[Top.i]} :
       \E r \in {resolve(waiting.rule, Top.lit, fresh)} :
       \E base \in {[table |-> noted(table, Top.sg, Top.i, Top.lit),
                     stack |-> Advanced,
                     fresh |-> r.n, pc |-> pc]} :
       \E m \in {IF resolvePanics(waiting.rule)
                 THEN [base EXCEPT !.pc = "panic"]
                 ELSE IF r.ok THEN discovered(base, waiting.subgoal, r.c)
                 ELSE base} :
          Become(m)
    /\ UNCHANGED <<db, cur, result>>

\* a sequence without its k-th element
Without(seq, k) == SubSeq(seq, 1, k - 1) \o SubSeq(seq, k + 1, Len(seq))

\* one iteration of the second loop of discoveredRule.  simplifiedRules was
\* filled by ranging over a Go map, so its order is any order: the rule
\* handed on next is any of those left.
RuleStep ==
    /\ pc = "run" /\ stack # << >>
    /\ Top.kind = "rule"
    /\ \E k \in 1..Len(Top.items) :
       \E base \in {[table |-> table,
                     stack |-> [stack EXCEPT ![Len(stack)].items =
                                                 Without(@, k)],
                     fresh |-> fresh, pc |-> pc]} :
       \E m \in {discovered(base, Top.sg, Top.items[k])} :
          Become(m)
    /\ UNCHANGED <<db, cur, result>>

\* the innermost loop is over: the callee returns
Return ==
    /\ pc = "run" /\ stack # << >>
    /\ IF Top.kind = "rule" THEN Top.items = << >>
       ELSE Top.i > Len(ranged(Top, table))
    /\ stack' = SubSeq(stack, 1, Len(stack) - 1)
    /\ UNCHANGED <<db, pc, table, fresh, cur, result>>

\* a range that may visit an entry twice and another not at all
OrdersLoose(n) == [1..n -> 1..n]

\* the orders in which a range over a map of n entries may visit them
Orders(n) == {f \in [1..n -> 1..n] : \A i, j \in 1..n : f[i] = f[j] => i = j}

\* search has returned to Query, which copies the root subgoal's facts out
\* of the map into the answers, in the order the range visits them; the
\* query map is garbage from here on
QueryReturn ==
    /\ pc = "run" /\ stack = << >>
    /\ LET facts == table[tag(cur)].facts
       IN  \E f \in Orders(Len(facts)) :
              result' = Result("Query", cur, "",
                               [i \in 1..Len(facts) |-> facts[f[i]]])
    /\ pc' = "idle"
    /\ table' = makeQuery
    /\ fresh' = 0
    /\ UNCHANGED <<db, stack, cur>>

Step == SearchStep \/ FactStep \/ RuleStep \/ Return \/ QueryReturn

Next ==
    \/ \E c \in ClauseU : DoAssert(c)
    \/ \E c \in ClauseU : DoRetract(c)
    \/ \E c \in ClauseU : DoRetractOne(c)
    \/ \E l \in QueryU : QueryStart(l)
    \/ SearchStep
    \/ FactStep
    \/ RuleStep
    \/ Return
    \/ QueryReturn

Spec == Init /\ [][Next]_vars

\* Query runs to completion: it is one synchronous call
FairSpec == Spec /\ WF_vars(Step)

(***************************************************************************)
(* The path program of the benchmark over the graphs of at most MaxEdges   *)
(* edges on the three constants; ancestor plays path.                      *)
(***************************************************************************)
MaxEdges == 3

\* path(X, Y) :- edge(X, Y).
RuleEdge == Clause(Lit(ancestor, <<VarX, VarY>>), <<Lit(edge, <<VarX, VarY>>)>>)

\* edge(v-x, v-y).
EdgeFact(x, y) == Clause(Lit(edge, <<x, y>>), << >>)

\* the k-th pair of vertices
EdgeAt(k) == EdgeFact(((k - 1) \div 3) + 1, ((k - 1) % 3) + 1)

\* the edge facts numbered in G, in the order of their numbers
EdgeList(G) ==
    LET ks == SelectSeq([k \in 1..9 |-> k], LAMBDA k : k \in G)
    IN  [i \in 1..Len(ks) |-> EdgeAt(ks[i])]

Graphs == {G \in SUBSET (1..9) : Cardinality(G) <= MaxEdges}

\* the graph g the tests build next to the edge facts: g.v[x] lists the y of
\* the facts edge(x, y) in the order they were written
graphOf(edges) ==
    [x \in Consts |->
        LET out == SelectSeq(edges, LAMBDA c : c.Head.Arg[1] = x)
        IN  [i \in 1..Len(out) |-> out[i].Head.Arg[2]]]

\* the loops of the tests' reference search path(g, src, dst): q is the stack
\* q[0..n-1], adj the list g.v[v] of the vertex popped, i the place in it
RECURSIVE pathLoop(_, _, _, _, _, _)
pathLoop(g, dst, visited, q, adj, i) ==
    IF i > Len(adj)
    THEN IF q = << >> THEN FALSE
         ELSE pathLoop(g, dst, visited, SubSeq(q, 1, Len(q) - 1),
                       g[q[Len(q)]], 1)
    ELSE IF adj[i] \in visited THEN pathLoop(g, dst, visited, q, adj, i + 1)
    ELSE IF adj[i] = dst THEN TRUE
    ELSE pathLoop(g, dst, visited \cup {adj[i]}, Append(q, adj[i]), adj, i + 1)

\* path(g, src, dst) of the tests
path(g, src, dst) ==
    IF src = dst THEN TRUE
    ELSE pathLoop(g, dst, {src}, <<src>>, << >>, 1)

\* the database after the program and the edges have been asserted
PathInit ==
    /\ \E G \in Graphs :
          db = [p \in DBPreds |->
                  IF p = ancestor THEN <<RuleEdge, RuleTrans>>
                  ELSE IF p = edge THEN EdgeList(G)
                  ELSE << >>]
    /\ pc = "idle"
    /\ table = makeQuery
    /\ stack = << >>
    /\ fresh = 0
    /\ cur = QueryAC
    /\ result = Result("none", QueryAC, "", << >>)

\* path(v-x, v-y)? for any two vertices, and the steps of the prover
PathNext ==
    \/ \E x, y \in Consts : QueryStart(Lit(ancestor, <<x, y>>))
    \/ SearchStep
    \/ FactStep
    \/ RuleStep
    \/ Return
    \/ QueryReturn

PathSpec == PathInit /\ [][PathNext]_vars

(***************************************************************************)
(* Queries over the databases of at most MaxDb ancestor clauses, among     *)
(* them a rule whose resolvents wait on the subgoal whose fact they come   *)
(* from.                                                                   *)
(***************************************************************************)
\* ancestor(X, Z) :- ancestor(X, Y), ancestor(Z, X).
RuleSide == Clause(Lit(ancestor, <<VarX, VarZ>>),
                   <<Lit(ancestor, <<VarX, VarY>>), Lit(ancestor, <<VarZ, VarX>>)>>)

WaitClauses == {FactAB, FactBC, RuleTrans, RuleSide}

\* the database after its clauses have been asserted
WaitInit ==
    /\ \E list \in UNION {[1..n -> WaitClauses] : n \in 0..MaxDb} :
          db = [p \in DBPreds |-> IF p = ancestor THEN list ELSE << >>]
    /\ pc = "idle"
    /\ table = makeQuery
    /\ stack = << >>
    /\ fresh = 0
    /\ cur = QueryXY
    /\ result = Result("none", QueryXY, "", << >>)

WaitNext ==
    \/ \E l \in {QueryXY, QueryAC} : QueryStart(l)
    \/ SearchStep
    \/ FactStep
    \/ RuleStep
    \/ Return
    \/ QueryReturn

WaitSpec == WaitInit /\ [][WaitNext]_vars

(***************************************************************************)
(* The functions on literals, applied to any two literals: cur is the      *)
(* literal a, result.arg the literal b, and result holds what the function *)
(* last applied has returned.                                              *)
(***************************************************************************)
Terms == Consts \cup UserVars

\* NewLiteral(p, arg...) for the database predicates: len(arg) = p.arity()
LitU ==
    UNION {{Lit(p, args) : args \in [1..arity(p) -> Terms]} :
              p \in {ancestor, triple}}

LitInit ==
    /\ db = [p \in DBPreds |-> << >>]
    /\ pc = "lit"
    /\ table = makeQuery
    /\ stack = << >>
    /\ fresh = 0
    /\ cur \in LitU
    /\ \E b \in LitU : result = Result("none", b, "", << >>)

\* e := unify(a, b); if e != nil, a.subst(e) and b.subst(e)
LitUnify ==
    /\ pc = "lit"
    /\ \E u \in {unify(cur, result.arg)} :
          result' = IF u.ok
                    THEN Result("unify", result.arg, "",
                                <<subst(cur, u.e), subst(result.arg, u.e)>>)
                    ELSE Result("unify", result.arg, "nil", << >>)
    /\ UNCHANGED <<db, pc, table, stack, fresh, cur>>

\* a.tag() and b.tag()
LitTag ==
    /\ pc = "lit"
    /\ result' = Result("tag", result.arg, "", <<tag(cur), tag(result.arg)>>)
    /\ UNCHANGED <<db, pc, table, stack, fresh, cur>>

\* a.lID() and b.lID()
LitID ==
    /\ pc = "lit"
    /\ result' = IF lIDPanics(cur) \/ lIDPanics(result.arg)
                 THEN Result("lID", result.arg, "panic", << >>)
                 ELSE Result("lID", result.arg, "", <<lID(cur), lID(result.arg)>>)
    /\ UNCHANGED <<db, pc, table, stack, fresh, cur>>

LitNext == LitUnify \/ LitTag \/ LitID

LitSpec == LitInit /\ [][LitNext]_vars

(***************************************************************************)
(* Building a literal and searching the equality primitive: cur holds the  *)
(* predicate and the argument list of the call, result what it returned.   *)
(***************************************************************************)
MaxArgs == 3

ErrArity == "datalog: arity mismatch"

\* the argument lists arg... of a call NewLiteral(p, arg...)
ArgLists == UNION {[1..n -> Terms] : n \in 0..MaxArgs}

\* a NewLiteral that only refuses too many arguments
NewLiteralLoose(p, arg) ==
    IF arity(p) < Len(arg) THEN [panic |-> TRUE, l |-> << >>]
    ELSE [panic |-> FALSE, l |-> <<Lit(p, arg)>>]

\* NewLiteral: panics unless p.arity() = len(arg)
NewLiteral(p, arg) ==
    IF arity(p) # Len(arg) THEN [panic |-> TRUE, l |-> << >>]
    ELSE [panic |-> FALSE, l |-> <<Lit(p, arg)>>]

\* NewClause(head): a fact
NewClause(head) == Clause(head, << >>)

\* a Search that hands back the target itself whenever one side is known
eqPrimSearchTarget(target) ==
    LET a == target.Arg[1]
        b == target.Arg[2]
    IN  IF IsVar(a) /\ IsConst(b) THEN <<NewClause(target)>>
        ELSE IF IsConst(a) /\ IsVar(b) THEN <<NewClause(target)>>
        ELSE IF IsConst(a) /\ IsConst(b) /\ a = b THEN <<NewClause(target)>>
        ELSE << >>

\* eqPrim.Search: the clauses handed to discovered, in order
eqPrimSearch(target) ==
    LET a == target.Arg[1]
        b == target.Arg[2]
    IN  IF IsVar(a) /\ IsConst(b)
        THEN <<NewClause(NewLiteral(equals, <<b, b>>).l[1])>>
        ELSE IF IsConst(a) /\ IsVar(b)
        THEN <<NewClause(NewLiteral(equals, <<a, a>>).l[1])>>
        ELSE IF IsConst(a) /\ IsConst(b) /\ a = b THEN <<NewClause(target)>>
        ELSE << >>

ArgInit ==
    /\ db = [p \in DBPreds |-> << >>]
    /\ pc = "arg"
    /\ table = makeQuery
    /\ stack = << >>
    /\ fresh = 0
    /\ \E p \in Preds, arg \in ArgLists : cur = [Pred |-> p, Arg |-> arg]
    /\ result = Result("none", cur, "", << >>)

\* l := NewLiteral(p, arg...)
ArgNewLiteral ==
    /\ pc = "arg"
    /\ \E r \in {NewLiteral(cur.Pred, cur.Arg)} :
          result' = Result("NewLiteral", cur, IF r.panic THEN ErrArity ELSE "",
                           r.l)
    /\ UNCHANGED <<db, pc, table, stack, fresh, cur>>

\* Equals.Search(NewLiteral(Equals, a, b), discovered)
ArgSearch ==
    /\ pc = "arg"
    /\ cur.Pred = equals
    /\ \E r \in {NewLiteral(cur.Pred, cur.Arg)} :
          /\ ~r.panic
          /\ result' = Result("Search", cur, "", eqPrimSearch(r.l[1]))
    /\ UNCHANGED <<db, pc, table, stack, fresh, cur>>

ArgNext == ArgNewLiteral \/ ArgSearch

ArgSpec == ArgInit /\ [][ArgNext]_vars

(***************************************************************************)
(* The text driver.  parse is given by what it returns: an error, or the   *)
(* list of nodes of the program, each an assertion, a retraction or a      *)
(* query whose predicates and terms recoverLiteral has looked up.  cur is  *)
(* the Engine and the call in progress: cur.refCount the Engine's          *)
(* refCount (0: no entry), cur.calls the calls made so far, and the rest   *)
(* the locals of the call; result is what the last call returned.          *)
(***************************************************************************)
MaxStmts == 2
MaxCalls == 2

actionAssert == "assert"
actionRetract == "retract"
queryNode == "query"

\* an actionNode (kind is its action) or a queryNode
Node(kind, arg) == [kind |-> kind, arg |-> arg]

NodeU ==
    {Node(actionAssert, FactAB), Node(actionAssert, RuleTrans),
     Node(actionAssert, PrimFact), Node(actionRetract, FactAB),
     Node(actionRetract, PrimFact), Node(queryNode, QueryXY),
     Node(queryNode, QueryEq)}

\* pgm, err := parse(name, input)
Parsed(err, nodeList) == [err |-> err, nodeList |-> nodeList]

ErrParse == "datalog: parse error"
ErrOneStatement == "datalog: expecting one statement"
ErrKind == "datalog: expecting statement of another kind"

ProgU ==
    {Parsed(ErrParse, << >>)} \cup
    {Parsed("", nodes) : nodes \in UNION {[1..n -> NodeU] : n \in 0..MaxStmts}}

Objects == Preds \cup Consts \cup UserVars

\* Engine.trackObject
trackObject(rc, obj, inc) ==
    LET count == rc[obj] + inc
    IN  [rc EXCEPT ![obj] = IF count <= 0 THEN 0 ELSE count]

RECURSIVE trackArgs(_, _, _, _)
trackArgs(rc, arg, i, inc) ==
    IF i > Len(arg) THEN rc
    ELSE trackArgs(trackObject(rc, arg[i], inc), arg, i + 1, inc)

\* Engine.trackLiteral
trackLiteral(rc, l, inc) == trackArgs(trackObject(rc, l.Pred, inc), l.Arg, 1, inc)

RECURSIVE trackBody(_, _, _, _)
trackBody(rc, body, j, inc) ==
    IF j > Len(body) THEN rc
    ELSE trackBody(trackLiteral(rc, body[j], inc), body, j + 1, inc)

\* Engine.track
track(rc, c, inc) == trackBody(trackLiteral(rc, c.Head, inc), c.Body, 1, inc)

\* Engine.assert: c.Assert(), then e.track(c, +1)
engineAssert(rc, d, c) ==
    LET r == clauseAssert(d, c)
    IN  [err |-> r.err, db |-> r.db, refCount |-> track(rc, c, 1)]

\* Engine.retract: c.Retract(), then e.track(c, -1)
engineRetract(rc, d, c) ==
    LET r == clauseRetract(d, c)
    IN  [err |-> r.err, db |-> r.db, refCount |-> track(rc, c, 0 - 1)]

\* the Engine between two calls
Resting(rc, calls) == [op |-> "none", refCount |-> rc, calls |-> calls]

\* what Process has counted so far
Counted(pgm, a, r, q, errs) ==
    [op |-> "Process", arg |-> pgm, assertions |-> a, retractions |-> r,
     queries |-> q, errors |-> errs]

\* what Assert, Retract and Query return
Returns(op, pgm, err, supported) ==
    [op |-> op, arg |-> pgm, err |-> err, supported |-> supported]

EngInit ==
    /\ db = [p \in DBPreds |-> << >>]
    /\ pc = "idle"
    /\ table = makeQuery
    /\ stack = << >>
    /\ fresh = 0
    /\ cur = Resting([o \in Objects |-> 0], 0)       \* NewEngine()
    /\ result = Returns("none", Parsed("", << >>), "", FALSE)

\* the body of Process's loop for a node that has returned err, as it goes on
\* in Batch: the first error ends the loop
handledBatch(call, node, err) ==
    [call EXCEPT
        !.assertions = IF node.kind = actionAssert THEN @ + 1 ELSE @,
        !.retractions = IF node.kind = actionRetract THEN @ + 1 ELSE @,
        !.queries = IF node.kind = queryNode THEN @ + 1 ELSE @,
        !.errors = IF err # "" THEN @ + 1 ELSE @,
        !.i = IF err # "" THEN Len(call.arg.nodeList) + 1 ELSE @ + 1]

\* the body of Process's loop for a node that has returned err: count the
\* node, count the error, go on to the next node
handled(call, node, err) ==
    [call EXCEPT
        !.assertions = IF node.kind = actionAssert THEN @ + 1 ELSE @,
        !.retractions = IF node.kind = actionRetract THEN @ + 1 ELSE @,
        !.queries = IF node.kind = queryNode THEN @ + 1 ELSE @,
        !.errors = IF err # "" THEN @ + 1 ELSE @,
        !.i = @ + 1]

\* e.Process(name, input), up to the start of its loop
Process(pgm) ==
    /\ pc = "idle"
    /\ cur.calls < MaxCalls
    /\ IF pgm.err # ""
       THEN /\ result' = Counted(pgm, 0, 0, 0, 1)
            /\ cur' = Resting(cur.refCount, cur.calls + 1)
            /\ pc' = "idle"
       ELSE /\ cur' = [op |-> "Process", refCount |-> cur.refCount,
                       calls |-> cur.calls + 1, arg |-> pgm, i |-> 1,
                       assertions |-> 0, retractions |-> 0, queries |-> 0,
                       errors |-> 0]
            /\ pc' = "node"
            /\ UNCHANGED result
    /\ UNCHANGED <<db, table, stack, fresh>>

\* one iteration of Process's loop on an actionNode
ProcessAction ==
    /\ pc = "node" /\ cur.i <= Len(cur.arg.nodeList)
    /\ \E node \in {cur.arg.nodeList[cur.i]} :
          /\ node.kind # queryNode
          /\ \E r \in {IF node.kind = actionAssert
                       THEN engineAssert(cur.refCount, db, node.arg)
                       ELSE engineRetract(cur.refCount, db, node.arg)} :
                /\ db' = r.db
                /\ cur' = [handled(cur, node, r.err) EXCEPT
                              !.refCount = r.refCount]
    /\ UNCHANGED <<pc, table, stack, fresh, result>>

\* one iteration of Process's loop on a queryNode: e.query calls l.Query()
ProcessQuery ==
    /\ pc = "node" /\ cur.i <= Len(cur.arg.nodeList)
    /\ \E node \in {cur.arg.nodeList[cur.i]} :
          /\ node.kind = queryNode
          /\ \E m \in {search([table |-> makeQuery, stack |-> << >>,
                               fresh |-> 0, pc |-> "run"], node.arg, << >>)} :
                Become(m)
    /\ UNCHANGED <<db, cur, result>>

\* l.Query() has returned to e.query, and e.query, with no error, to Process
ProcessQueried ==
    /\ pc = "run" /\ stack = << >>
    /\ cur.op = "Process"
    /\ cur' = handled(cur, cur.arg.nodeList[cur.i], "")
    /\ pc' = "node"
    /\ table' = makeQuery
    /\ fresh' = 0
    /\ UNCHANGED <<db, stack, result>>

\* the loop of Process is over
ProcessReturn ==
    /\ pc = "node" /\ cur.i > Len(cur.arg.nodeList)
    /\ result' = Counted(cur.arg, cur.assertions, cur.retractions,
                         cur.queries, cur.errors)
    /\ cur' = Resting(cur.refCount, cur.calls)
    /\ pc' = "idle"
    /\ UNCHANGED <<db, table, stack, fresh>>

\* what Batch returns
Batched(pgm, a, r, err) ==
    [op |-> "Batch", arg |-> pgm, assertions |-> a, retractions |-> r,
     err |-> err]

\* a loop body of Batch that goes on after an error, as Process does
batchHandledOn(call, node, err) ==
    [call EXCEPT
        !.assertions = IF node.kind = actionAssert THEN @ + 1 ELSE @,
        !.retractions = IF node.kind = actionRetract THEN @ + 1 ELSE @,
        !.i = @ + 1]

\* the body of Batch's loop for a node that has returned err ("" for a
\* queryNode, which is ignored): count an actionNode, keep err for the test
\* that ends the loop
batchHandled(call, node, err) ==
    [call EXCEPT
        !.assertions = IF node.kind = actionAssert THEN @ + 1 ELSE @,
        !.retractions = IF node.kind = actionRetract THEN @ + 1 ELSE @,
        !.err = err,
        !.i = @ + 1]

\* e.Batch(name, input), up to the start of its loop; before is no local of
\* the code: it is the database as the call found it
Batch(pgm) ==
    /\ pc = "idle"
    /\ cur.calls < MaxCalls
    /\ IF pgm.err # ""
       THEN /\ result' = Batched(pgm, 0, 0, pgm.err)
            /\ cur' = Resting(cur.refCount, cur.calls + 1)
            /\ pc' = "idle"
       ELSE /\ cur' = [op |-> "Batch", refCount |-> cur.refCount,
                       calls |-> cur.calls + 1, arg |-> pgm, i |-> 1,
                       assertions |-> 0, retractions |-> 0, err |-> "",
                       before |-> db]
            /\ pc' = "batch"
            /\ UNCHANGED result
    /\ UNCHANGED <<db, table, stack, fresh>>

\* one iteration of Batch's loop
BatchNode ==
    /\ pc = "batch" /\ cur.err = "" /\ cur.i <= Len(cur.arg.nodeList)
    /\ \E node \in {cur.arg.nodeList[cur.i]} :
       \E r \in {IF node.kind = actionAssert
                  THEN engineAssert(cur.refCount, db, node.arg)
                  ELSE IF node.kind = actionRetract
                  THEN engineRetract(cur.refCount, db, node.arg)
                  ELSE [err |-> "", db |-> db, refCount |-> cur.refCount]} :
          /\ db' = r.db
          /\ cur' = [batchHandled(cur, node, r.err) EXCEPT
                        !.refCount = r.refCount]
    /\ UNCHANGED <<pc, table, stack, fresh, result>>

\* Batch returns: at the first error, or when its loop is over
BatchReturn ==
    /\ pc = "batch"
    /\ cur.err # "" \/ cur.i > Len(cur.arg.nodeList)
    /\ result' = Batched(cur.arg, cur.assertions, cur.retractions, cur.err)
    /\ cur' = Resting(cur.refCount, cur.calls)
    /\ pc' = "idle"
    /\ UNCHANGED <<db, table, stack, fresh>>

\* e.Assert(assertion)
EngineAssert(pgm) ==
    /\ pc = "idle"
    /\ cur.calls < MaxCalls
    /\ IF pgm.err # ""
       THEN /\ result' = Returns("Assert", pgm, pgm.err, FALSE)
            /\ cur' = Resting(cur.refCount, cur.calls + 1)
            /\ UNCHANGED db
       ELSE IF Len(pgm.nodeList) # 1
       THEN /\ result' = Returns("Assert", pgm, ErrOneStatement, FALSE)
            /\ cur' = Resting(cur.refCount, cur.calls + 1)
            /\ UNCHANGED db
       ELSE IF pgm.nodeList[1].kind = queryNode      \* no *actionNode
       THEN /\ result' = Returns("Assert", pgm, ErrKind, FALSE)
            /\ cur' = Resting(cur.refCount, cur.calls + 1)
            /\ UNCHANGED db
       ELSE \E r \in {engineAssert(cur.refCount, db, pgm.nodeList[1].arg)} :
            /\ result' = Returns("Assert", pgm, r.err, FALSE)
            /\ cur' = Resting(r.refCount, cur.calls + 1)
            /\ db' = r.db
    /\ UNCHANGED <<pc, table, stack, fresh>>

\* e.Retract(retraction)
EngineRetract(pgm) ==
    /\ pc = "idle"
    /\ cur.calls < MaxCalls
    /\ IF pgm.err # ""
       THEN /\ result' = Returns("Retract", pgm, pgm.err, FALSE)
            /\ cur' = Resting(cur.refCount, cur.calls + 1)
            /\ UNCHANGED db
       ELSE IF Len(pgm.nodeList) # 1
       THEN /\ result' = Returns("Retract", pgm, ErrOneStatement, FALSE)
            /\ cur' = Resting(cur.refCount, cur.calls + 1)
            /\ UNCHANGED db
       ELSE IF pgm.nodeList[1].kind = queryNode      \* no *actionNode
       THEN /\ result' = Returns("Retract", pgm, ErrKind, FALSE)
            /\ cur' = Resting(cur.refCount, cur.calls + 1)
            /\ UNCHANGED db
       ELSE \E r \in {engineRetract(cur.refCount, db, pgm.nodeList[1].arg)} :
            /\ result' = Returns("Retract", pgm, r.err, FALSE)
            /\ cur' = Resting(r.refCount, cur.calls + 1)
            /\ db' = r.db
    /\ UNCHANGED <<pc, table, stack, fresh>>

\* e.Query(query), as far as the start of search's loop
EngineQuery(pgm) ==
    /\ pc = "idle"
    /\ cur.calls < MaxCalls
    /\ IF pgm.err # ""
       THEN /\ result' = Returns("Query", pgm, pgm.err, FALSE)
            /\ cur' = Resting(cur.refCount, cur.calls + 1)
            /\ UNCHANGED <<pc, table, stack, fresh>>
       ELSE IF Len(pgm.nodeList) # 1
       THEN /\ result' = Returns("Query", pgm, ErrOneStatement, FALSE)
            /\ cur' = Resting(cur.refCount, cur.calls + 1)
            /\ UNCHANGED <<pc, table, stack, fresh>>
       ELSE IF pgm.nodeList[1].kind # queryNode      \* no *queryNode
       THEN /\ result' = Returns("Query", pgm, ErrKind, FALSE)
            /\ cur' = Resting(cur.refCount, cur.calls + 1)
            /\ UNCHANGED <<pc, table, stack, fresh>>
       ELSE /\ cur' = [op |-> "Query", refCount |-> cur.refCount,
                       calls |-> cur.calls + 1, arg |-> pgm, i |-> 1]
            /\ \E m \in {search([table |-> makeQuery, stack |-> << >>,
                                 fresh |-> 0, pc |-> "run"],
                                pgm.nodeList[1].arg, << >>)} :
                  Become(m)
            /\ UNCHANGED result
    /\ UNCHANGED db

\* l.Query() has returned to e.Query: supported := l.Query() != nil
EngineQueried ==
    /\ pc = "run" /\ stack = << >>
    /\ cur.op = "Query"
    /\ result' = Returns("Query", cur.arg, "",
                         table[tag(cur.arg.nodeList[1].arg)].facts # << >>)
    /\ cur' = Resting(cur.refCount, cur.calls)
    /\ pc' = "idle"
    /\ table' = makeQuery
    /\ fresh' = 0
    /\ UNCHANGED <<db, stack>>

EngNext ==
    \/ \E pgm \in ProgU : Process(pgm)
    \/ ProcessAction
    \/ ProcessQuery
    \/ ProcessQueried
    \/ ProcessReturn
    \/ \E pgm \in ProgU : Batch(pgm)
    \/ BatchNode
    \/ BatchReturn
    \/ \E pgm \in ProgU : EngineAssert(pgm)
    \/ \E pgm \in ProgU : EngineRetract(pgm)
    \/ \E pgm \in ProgU : EngineQuery(pgm)
    \/ EngineQueried
    \/ SearchStep
    \/ FactStep
    \/ RuleStep
    \/ Return

EngSpec == EngInit /\ [][EngNext]_vars

(***************************************************************************)
(* The tag of a clause and the retractions that go by it: cur is the       *)
(* clause c the functions are called on, result.arg a clause d that has    *)
(* been asserted, the only one stored.  The clauses have at most MaxBody   *)
(* body literals, of ancestor or of link; c is over two constants and two  *)
(* variables, d over one constant and two variables.                       *)
(***************************************************************************)
MaxBody == 1

TagTerms == {alice, dave, VarX, VarY}

TagLits(p, T) == {Lit(p, args) : args \in [1..2 -> T]}

TagBodies(T) ==
    UNION {[1..n -> TagLits(ancestor, T) \cup TagLits(link, T)] :
              n \in 0..MaxBody}

\* NewClause(head, body...) over the terms T
TagClauses(T) == {Clause(h, b) : h \in TagLits(ancestor, T), b \in TagBodies(T)}

\* d.Assert() has stored d
TagInit ==
    /\ \E d \in TagClauses(TagTerms \ {dave}) :
       \E r \in {clauseAssert([p \in DBPreds |-> << >>], d)} :
          /\ r.err = ""
          /\ db = r.db
          /\ result = Result("none", d, "", << >>)
    /\ pc = "tag"
    /\ table = makeQuery
    /\ stack = << >>
    /\ fresh = 0
    /\ cur \in TagClauses(TagTerms)

\* c.tag() and d.tag()
TagCompare ==
    /\ pc = "tag"
    /\ result' = Result("tag", result.arg, "",
                        <<clauseTag(cur), clauseTag(result.arg)>>)
    /\ UNCHANGED <<db, pc, table, stack, fresh, cur>>

\* c.Retract()
TagRetract ==
    /\ pc = "tag"
    /\ \E r \in {clauseRetract(db, cur)} :
          /\ db' = r.db
          /\ result' = Result("Retract", result.arg, r.err, << >>)
    /\ UNCHANGED <<pc, table, stack, fresh, cur>>

\* c.RetractOne()
TagRetractOne ==
    /\ pc = "tag"
    /\ \E r \in {clauseRetractOne(db, cur)} :
          /\ db' = r.db
          /\ result' = Result("RetractOne", result.arg, r.err, << >>)
    /\ UNCHANGED <<pc, table, stack, fresh, cur>>

TagNext == TagCompare \/ TagRetract \/ TagRetractOne

TagSpec == TagInit /\ [][TagNext]_vars

(***************************************************************************)
(* Standard Datalog semantics, for stating the claims: ground instances,   *)
(* the least Herbrand model of a database, unifiability with a ground      *)
(* literal.                                                                *)
(***************************************************************************)
LitVars(l) == {l.Arg[i] : i \in DOMAIN l.Arg} \ Consts

BodyVars(c) == UNION {LitVars(c.Body[j]) : j \in DOMAIN c.Body}

ClauseVars(c) == LitVars(c.Head) \cup BodyVars(c)

\* the literal l under the ground assignment th
Inst(l, th) ==
    [Pred |-> l.Pred,
     Arg |-> [i \in 1..Len(l.Arg) |->
                IF l.Arg[i] \in Consts THEN l.Arg[i] ELSE th[l.Arg[i]]]]

StoredClauses(d) == UNION {{d[p][i] : i \in DOMAIN d[p]} : p \in DOMAIN d}

\* the heads the clause c yields in one step from the ground atoms S
Consequences(c, S) ==
    {Inst(c.Head, th) : th \in
        {t \in [ClauseVars(c) -> Consts] :
            \A j \in DOMAIN c.Body : Inst(c.Body[j], t) \in S}}

RECURSIVE Closure(_, _)
Closure(cs, S) ==
    LET T == S \cup UNION {Consequences(c, S) : c \in cs}
    IN  IF T = S THEN S ELSE Closure(cs, T)

\* the least Herbrand model of the clauses stored in d
LeastModel(d) == Closure(StoredClauses(d), {})

\* the ground literal g is an instance of q
Unifies(q, g) ==
    /\ q.Pred = g.Pred
    /\ \A i \in DOMAIN q.Arg : q.Arg[i] \in Consts => g.Arg[i] = q.Arg[i]
    /\ \A i, j \in DOMAIN q.Arg : q.Arg[i] = q.Arg[j] => g.Arg[i] = g.Arg[j]

Returned == pc = "idle" /\ result.op = "Query"

Answers == {result.ans[i] : i \in DOMAIN result.ans}

(***************************************************************************)
(* C1  Soundness.                                                          *)
(***************************************************************************)
\* C1: every literal Query returns is a ground consequence of the clauses
\* stored at that time (a member of their least Herbrand model).
C1_Soundness ==
    Returned => \A g \in Answers : g \in LeastModel(db)

\* a query has returned a fact that is stored nowhere: it was derived
C1_Witness ==
    /\ Returned
    /\ \E g \in Answers : \A c \in StoredClauses(db) : c.Head # g

C3_AnswersUnify ==
    Returned => \A g \in Answers : Unifies(result.arg, g)

(***************************************************************************)
(* C4  Termination.                                                        *)
(***************************************************************************)
\* C4: every Query that is started halts.
C4_Terminates == (pc = "run") ~> (pc \in {"idle", "panic"})

\* a query over a recursive rule stored twice has returned answers
C4_Witness ==
    /\ Returned
    /\ Answers # {}
    /\ \E i, j \in DOMAIN db[ancestor] :
          i # j /\ db[ancestor][i] = RuleTrans /\ db[ancestor][j] = RuleTrans

(***************************************************************************)
(* C5  Deduplication.                                                      *)
(***************************************************************************)
\* C5: no two of the literals Query returns have the same identity tag.
C5_NoDuplicateAnswers ==
    Returned =>
        \A i, j \in DOMAIN result.ans :
            lID(result.ans[i]) = lID(result.ans[j]) => i = j

\* answers came back from a database that stores the same fact twice
C5_Witness ==
    /\ Returned
    /\ db[ancestor] = <<FactAB, FactAB>>
    /\ result.ans = <<Lit(ancestor, <<alice, bob>>)>>

(***************************************************************************)
(* C6  The answers depend on the query literal and the database alone.     *)
(***************************************************************************)
\* what a Query of q over the database d derives when it starts from
\* nothing: per stored clause whose renamed head unifies with q, the ground
\* instances of the clause search hands on whose body holds in d's model
Derivable(d, q) ==
    UNION {LET r == rename(d[q.Pred][i], 0)
               e == unify(q, r.c.Head)
           IN  IF e.ok
               THEN Consequences(clauseSubst(r.c, e.e), LeastModel(d))
               ELSE {}
           : i \in DOMAIN d[q.Pred]}

\* C6: the set Query(Q) returns is a function of Q and of the database as
\* it is at the call; nothing of earlier queries or of clauses since
\* retracted shows in it.
C6_FromScratch ==
    Returned => Answers = Derivable(db, result.arg)

\* ancestor(alice, carol)? is empty once ancestor(bob, carol) is retracted
C6_Witness ==
    /\ Returned
    /\ result.arg = QueryAC
    /\ Answers = {}
    /\ StoredClauses(db) = {FactAB, RuleTrans}

(***************************************************************************)
(* C7  Query does not raise.                                               *)
(***************************************************************************)
\* C7: Query never panics, whatever the predicate of the query literal.
C7_NeverPanics == pc # "panic"

(***************************************************************************)
(* C8  Safety rejection.                                                   *)
(***************************************************************************)
\* some variable of the head occurs in no body literal
HeadVarMissing(c) == \E v \in LitVars(c.Head) : v \notin BodyVars(c)

\* C8: Assert(c) returns the unsafe-clause error exactly when some variable
\* of c's head occurs in no body literal of c.
C8_SafetyRejection ==
    result.op = "Assert" =>
        (result.err = ErrUnsafe <=> HeadVarMissing(result.arg))

\* the unsafe rule of the tests was rejected
C8_Witness ==
    /\ result.op = "Assert"
    /\ result.arg = UnsafeRule
    /\ result.err = ErrUnsafe

(***************************************************************************)
(* C9  A failed Assert changes nothing.                                    *)
(***************************************************************************)
\* C9: a call of Assert that returns an error leaves every predicate's
\* clause list as it was.
C9_FailedAssertKeepsDb ==
    [][(result'.op = "Assert" /\ result'.err # "") => db' = db]_vars

\* Assert has failed on a database that holds clauses
C9_Witness ==
    /\ result.op = "Assert"
    /\ result.err # ""
    /\ Stored(db) > 0

(***************************************************************************)
(* C10  A successful Assert appends one clause.                            *)
(***************************************************************************)
\* C10: Assert of a safe clause with a database head succeeds and appends
\* that clause to its head predicate's list, changing nothing else; that
\* the clause or a variant of it is stored already makes no difference.
C10_AssertAppends ==
    [][(/\ result'.op = "Assert"
        /\ ~HeadVarMissing(result'.arg)
        /\ result'.arg.Head.Pred \in DBPreds)
       => (/\ result'.err = ""
           /\ db' = [db EXCEPT ![result'.arg.Head.Pred] =
                                   Append(@, result'.arg)])]_vars

\* the last Assert stored a clause of which an identical copy and a variant
\* were in the list before
C10_Witness ==
    /\ result.op = "Assert"
    /\ result.err = ""
    /\ db[triple] = <<RuleTripleV, RuleTriple, RuleTriple>>
    /\ result.arg = RuleTriple

(***************************************************************************)
(* Clauses up to renaming, and lists as bags, for the database claims.     *)
(***************************************************************************)
RECURSIVE FlatFrom(_, _)
FlatFrom(body, i) ==
    IF i > Len(body) THEN << >> ELSE body[i].Arg \o FlatFrom(body, i + 1)

\* the terms of a clause, head first, in the order they are written
Flat(c) == c.Head.Arg \o FlatFrom(c.Body, 1)

\* some bijection between the variables of c1 and of c2 makes them identical
VariantClauses(c1, c2) ==
    /\ c1.Head.Pred = c2.Head.Pred
    /\ Len(c1.Body) = Len(c2.Body)
    /\ \A j \in DOMAIN c1.Body : c1.Body[j].Pred = c2.Body[j].Pred
    /\ LET f1 == Flat(c1)
           f2 == Flat(c2)
       IN  /\ Len(f1) = Len(f2)
           /\ \A i \in DOMAIN f1 :
                 (IsConst(f1[i]) \/ IsConst(f2[i])) => f1[i] = f2[i]
           /\ \A i, j \in DOMAIN f1 : (f1[i] = f1[j]) <=> (f2[i] = f2[j])

\* how often the clause x is in the list
Count(list, x) == Cardinality({i \in DOMAIN list : list[i] = x})

DbOps == {"Assert", "Retract", "RetractOne"}

(***************************************************************************)
(* C11  The database invariant.                                            *)
(***************************************************************************)
\* C11: whatever calls have been made, every clause in a predicate's list
\* is safe and has that predicate as the predicate of its head.
C11_DbInvariant ==
    \A p \in DOMAIN db : \A i \in DOMAIN db[p] :
        ~HeadVarMissing(db[p][i]) /\ db[p][i].Head.Pred = p

\* the database is full, both predicates hold clauses, the last call failed
C11_Witness ==
    /\ Stored(db) = MaxDb
    /\ \A p \in {ancestor, triple} : db[p] # << >>
    /\ result.op \in DbOps /\ result.err # ""

C13_RetractIdempotent ==
    [][(/\ result.op = "Retract" /\ result.err = ""
        /\ result'.op = "Retract" /\ result'.arg = result.arg)
       => (db' = db /\ result'.err = "")]_vars

\* after Retract(c) no variant of c is stored, and other clauses are
C13_Witness ==
    /\ result.op = "Retract" /\ result.err = ""
    /\ Stored(db) = 2
    /\ \A x \in StoredClauses(db) : ~VariantClauses(x, result.arg)

C15_PrimitiveIsolation ==
    [][(result'.op \in DbOps /\ result'.arg.Head.Pred \notin DBPreds)
       => (result'.err = ErrPrimitive /\ db' = db)]_vars

\* C15 as the code has it: such a call changes nothing and returns an
\* error, which is the primitive-predicate error except for Assert of an
\* unsafe clause, where it is the unsafe-clause error.
C15_PrimitiveRejected ==
    [][(result'.op \in DbOps /\ result'.arg.Head.Pred \notin DBPreds)
       => (/\ db' = db
           /\ result'.err =
                 IF result'.op = "Assert" /\ HeadVarMissing(result'.arg)
                 THEN ErrUnsafe ELSE ErrPrimitive)]_vars

\* RetractOne of a rule with a primitive head was refused on a database
\* that holds clauses
C15_Witness ==
    /\ result.op = "RetractOne"
    /\ result.arg = PrimRule
    /\ result.err = ErrPrimitive
    /\ Stored(db) > 0

(***************************************************************************)
(* C16  unify and subst.                                                   *)
(***************************************************************************)
\* C16: when unify(a, b) returns an environment e, a.subst(e) and
\* b.subst(e) are the same literal.
C16_UnifySubst ==
    (result.op = "unify" /\ result.err = "") => result.ans[1] = result.ans[2]

(***************************************************************************)
(* C17  The variant tag.                                                   *)
(***************************************************************************)
\* some bijection between the variables of a and of b makes them identical
VariantLits(a, b) ==
    /\ a.Pred = b.Pred
    /\ Len(a.Arg) = Len(b.Arg)
    /\ \A i \in DOMAIN a.Arg :
          (a.Arg[i] \in Consts \/ b.Arg[i] \in Consts) => a.Arg[i] = b.Arg[i]
    /\ \A i, j \in DOMAIN a.Arg :
          (a.Arg[i] = a.Arg[j]) <=> (b.Arg[i] = b.Arg[j])

\* C17: two literals have the same variant tag exactly when they have the
\* same predicate and are identical up to a bijective renaming of variables.
C17_VariantTag ==
    result.op = "tag" =>
        ((result.ans[1] = result.ans[2]) <=> VariantLits(cur, result.arg))

\* ancestor(alice, X) and ancestor(alice, Y) were given the same tag
C17_Witness ==
    /\ result.op = "tag"
    /\ cur = Lit(ancestor, <<alice, VarX>>)
    /\ result.arg = Lit(ancestor, <<alice, VarY>>)
    /\ result.ans[1] = result.ans[2]

(***************************************************************************)
(* C18  The identity tag.                                                  *)
(***************************************************************************)
\* C18: the identity tag of every literal, ground or not, is defined, and
\* two literals have the same identity tag exactly when they have the same
\* predicate and the same constant or variable in every position.
C18_IdentityTag ==
    result.op = "lID" =>
        /\ result.err # "panic"
        /\ (result.ans[1] = result.ans[2]) <=> (cur = result.arg)

(***************************************************************************)
(* C19  The clause lists are bags.                                         *)
(***************************************************************************)
\* the list in every order
PermsOf(list) ==
    {[i \in 1..Len(list) |-> list[f[i]]] : f \in Orders(Len(list))}

\* the databases that hold the clauses of d, each list in any order
Reorderings(d) ==
    {d2 \in [DOMAIN d -> UNION {PermsOf(d[p]) : p \in DOMAIN d}] :
        \A p \in DOMAIN d : d2[p] \in PermsOf(d[p])}

\* C19: the set of answers Query returns is the set it has to return over
\* the same clauses stored in any other order.
C19_Unordered ==
    Returned =>
        \A d2 \in Reorderings(db) : Answers = Derivable(d2, result.arg)

\* the ancestor program, stored rule between the facts and the facts in
\* reverse, has given its three answers
C19_Witness ==
    /\ Returned
    /\ result.arg = QueryXY
    /\ db[ancestor] = <<FactBC, RuleTrans, FactAB>>
    /\ Cardinality(Answers) = 3

(***************************************************************************)
(* C20  Query does not write the database.                                 *)
(***************************************************************************)
\* C20: from the call of Query to its return no step changes a clause list,
\* in content or in order.
C20_QueryReadOnly ==
    [][(pc = "run" \/ pc' = "run") => db' = db]_vars

\* a query over a full database, rules among its clauses, has returned
\* answers
C20_Witness ==
    /\ Returned
    /\ Answers # {}
    /\ Stored(db) = MaxDb
    /\ db[triple] # << >>

(***************************************************************************)
(* C21: the equality primitive's Search, for a target =(a, b), emits       *)
(* nothing when a and b are both variables or are distinct constants, and  *)
(* the single fact =(c, c) when c is the one constant among a and b (one   *)
(* side a constant and the other a variable, or both sides the constant    *)
(* c); every clause it emits is a ground fact of the target's predicate.   *)
(***************************************************************************)
C21_EqualsSearch ==
    result.op = "Search" =>
        LET given == {cur.Arg[1], cur.Arg[2]} \cap Consts
            emitted == result.ans
        IN  /\ Cardinality(given) = 1 =>
                \E c \in given :
                    emitted = <<[Head |-> [Pred |-> equals, Arg |-> <<c, c>>],
                                 Body |-> << >>]>>
            /\ Cardinality(given) # 1 => emitted = << >>
            /\ \A k \in DOMAIN emitted :
                  /\ emitted[k].Body = << >>
                  /\ emitted[k].Head.Pred = cur.Pred
                  /\ \A i \in DOMAIN emitted[k].Head.Arg :
                        emitted[k].Head.Arg[i] \in Consts

\* =(X, bob) has been searched and has yielded =(bob, bob)
C21_Witness ==
    /\ result.op = "Search"
    /\ cur.Arg = <<VarX, bob>>
    /\ Len(result.ans) = 1
    /\ result.ans[1].Head.Arg = <<bob, bob>>

(***************************************************************************)
(* C24: NewLiteral(p, arg...) with len(arg) different from p's arity       *)
(* yields no literal and fails with the arity mismatch; with len(arg)      *)
(* equal to the arity it yields the literal of exactly that predicate and  *)
(* those arguments in order; every literal it yields has as many           *)
(* arguments as its predicate's arity.                                     *)
(***************************************************************************)
C24_NewLiteralArity ==
    result.op = "NewLiteral" =>
        /\ Len(cur.Arg) # arity(cur.Pred) =>
              result.err = ErrArity /\ result.ans = << >>
        /\ Len(cur.Arg) = arity(cur.Pred) =>
              /\ result.err = ""
              /\ Len(result.ans) = 1
              /\ result.ans[1].Pred = cur.Pred
              /\ result.ans[1].Arg = cur.Arg
        /\ \A k \in DOMAIN result.ans :
              Len(result.ans[k].Arg) = arity(result.ans[k].Pred)

\* NewLiteral(triple, alice, bob) has failed
C24_Witness ==
    /\ result.op = "NewLiteral"
    /\ cur = [Pred |-> triple, Arg |-> <<alice, bob>>]
    /\ result.err = ErrArity

(***************************************************************************)
(* C22: equality in a rule body binds by its known side; in particular,    *)
(* with e(X, Y) :- =(X, Y) as the only clause stored (e is ancestor here), *)
(* the query e(X, Y)? returns, and returns no answers.                     *)
(***************************************************************************)
C22_EqualsInBody ==
    (/\ result.op = "Query"
     /\ cur = QueryXY
     /\ StoredClauses(db) = {RuleEq}
     /\ pc # "run")
        => (pc = "idle" /\ result.ans = << >>)

(***************************************************************************)
(* C23: with path(X, Y) :- edge(X, Y) and                                  *)
(* path(X, Z) :- path(X, Y), path(Y, Z) over the edge facts of any graph,  *)
(* the ground query path(s, t)? returns an answer if and only if the graph *)
(* has a directed path of one or more edges from s to t, and the answer    *)
(* is then the one fact path(s, t).                                        *)
(***************************************************************************)
\* the edges stored, as pairs
EdgesOf(d) ==
    {<<d[edge][i].Head.Arg[1], d[edge][i].Head.Arg[2]>> : i \in DOMAIN d[edge]}

\* the vertices reached from the vertices R by zero or more edges of E
RECURSIVE Reached(_, _)
Reached(E, R) ==
    LET N == R \cup {e[2] : e \in {x \in E : x[1] \in R}}
    IN  IF N = R THEN R ELSE Reached(E, N)

\* E has a directed path of one or more edges from s to t
PathExists(E, s, t) == t \in Reached(E, {e[2] : e \in {x \in E : x[1] = s}})

Fails(node) ==
    \/ node.kind = actionAssert /\ HeadVarMissing(node.arg)
    \/ node.kind # queryNode /\ node.arg.Head.Pred = equals

\* how many of the first n nodes are of the kind
CountKind(nodes, n, kind) == Cardinality({k \in 1..n : nodes[k].kind = kind})

CountFails(nodes, n) == Cardinality({k \in 1..n : Fails(nodes[k])})

\* the counts in c are those of the first n statements of the program
CountsAre(c, n) ==
    LET nodes == c.arg.nodeList
    IN  /\ c.assertions = CountKind(nodes, n, actionAssert)
        /\ c.retractions = CountKind(nodes, n, actionRetract)
        /\ c.queries = CountKind(nodes, n, queryNode)
        /\ c.errors = CountFails(nodes, n)

NotOne(pgm, kind) ==
    /\ pgm.err = ""
    /\ \/ Len(pgm.nodeList) >= 2
       \/ Len(pgm.nodeList) = 1 /\ pgm.nodeList[1].kind # kind

C26_OwnKindOnly ==
    [][/\ (cur'.calls = cur.calls + 1 /\ cur'.op = "none"
              /\ result'.op = "Assert" /\ NotOne(result'.arg, actionAssert))
          => (result'.err # "" /\ db' = db)
       /\ (cur'.calls = cur.calls + 1 /\ cur'.op = "none"
              /\ result'.op = "Retract" /\ NotOne(result'.arg, actionRetract))
          => (result'.err # "" /\ db' = db)
       /\ (cur'.calls = cur.calls + 1 /\ cur'.op = "none"
              /\ result'.op = "Query" /\ NotOne(result'.arg, queryNode))
          => (result'.err # "" /\ db' = db)
       /\ (cur'.calls = cur.calls + 1 /\ cur'.op = "Query")
          => ~NotOne(cur'.arg, queryNode)]_vars

(***************************************************************************)
(* C27: after any sequence of Assert, Retract and RetractOne calls, a      *)
(* search tries the clauses still stored for a predicate in the relative   *)
(* order in which they were asserted: every call leaves the clauses it     *)
(* does not remove in the order they had, an Assert adding its clause at   *)
(* the end.                                                                *)
(***************************************************************************)
\* s is t with some of its elements left out, the others in t's order
RECURSIVE IsSubseq(_, _)
IsSubseq(s, t) ==
    IF s = << >> THEN TRUE
    ELSE IF t = << >> THEN FALSE
    ELSE IF Head(s) = Head(t) THEN IsSubseq(Tail(s), Tail(t))
    ELSE IsSubseq(s, Tail(t))

C27_ClauseOrder ==
    [][\A p \in DOMAIN db :
          \/ IsSubseq(db'[p], db[p])
          \/ /\ result'.op = "Assert"
             /\ db'[p] = Append(db[p], result'.arg)]_vars

(***************************************************************************)
(* C27 as amended: a search tries the clauses in the order of the          *)
(* predicate's list; Assert adds its clause at the end of the list and     *)
(* moves no other; Retract and RetractOne leave every clause that is not   *)
(* removed where it is, except that the places of removed clauses in the   *)
(* shortened list are taken by the last clauses of the list that are not   *)
(* removed: the first such place by the last of them, the second by the    *)
(* last but one, and so on (RetractOne removes the first match only).      *)
(***************************************************************************)
\* the places of list, in ascending order, that satisfy Test
Places(list, Test(_)) == SelectSeq([k \in 1..Len(list) |-> k], Test)

\* list after the clauses at the places in gone are removed as the code
\* removes them: n clauses are left; a place up to n whose clause is gone is
\* a hole, and the holes in ascending order get the kept clauses behind n
\* in descending order
SwappedOut(list, gone) ==
    LET n == Len(list) - Cardinality(gone)
        holes == Places(list, LAMBDA k : k <= n /\ k \in gone)
        movers == Places(list, LAMBDA k : k > n /\ k \notin gone)
    IN  [k \in 1..n |->
            IF k \in gone
            THEN LET h == CHOOSE j \in DOMAIN holes : holes[j] = k
                 IN  list[movers[Len(movers) + 1 - h]]
            ELSE list[k]]

\* the places of list that hold a variant of the clause c
VariantPlaces(list, c) == {k \in DOMAIN list : VariantClauses(list[k], c)}

C27_SwapWithLast ==
    [][/\ \A f \in DOMAIN stack' :
             stack'[f].kind = "search" =>
                 stack'[f].items = db'[stack'[f].lit.Pred]
       /\ \A p \in DOMAIN db :
             LET gone == VariantPlaces(db[p], result'.arg)
             IN  IF result'.op = "Assert" /\ result'.err = ""
                    /\ result'.arg.Head.Pred = p
                 THEN db'[p] = Append(db[p], result'.arg)
                 ELSE IF result'.op = "Retract" /\ result'.arg.Head.Pred = p
                 THEN db'[p] = SwappedOut(db[p], gone)
                 ELSE IF result'.op = "RetractOne" /\ result'.err = ""
                         /\ result'.arg.Head.Pred = p
                 THEN db'[p] = SwappedOut(db[p],
                                   {CHOOSE k \in gone : \A j \in gone : k <= j})
                 ELSE db'[p] = db[p]]_vars

\* Retract has removed the first of three clauses and the third has taken
\* its place, before the second
C27_Witness ==
    /\ result.op = "Retract"
    /\ result.arg = FactAB
    /\ db[ancestor] = <<RuleTrans, FactBC>>

(***************************************************************************)
(* C28: the sequence Query returns lists the root subgoal's facts in the   *)
(* order in which they were discovered: its k-th element is the k-th       *)
(* distinct fact recorded for the root subgoal.                            *)
(***************************************************************************)
C28_DiscoveryOrder ==
    [][(pc = "run" /\ pc' = "idle") =>
          result'.ans = table[tag(cur)].facts]_vars

(***************************************************************************)
(* C28 as amended: the sequence Query returns lists the root subgoal's     *)
(* facts, each of them once and nothing else, in no particular order.      *)
(***************************************************************************)
C28_AnswersAreFacts ==
    [][(pc = "run" /\ pc' = "idle") =>
          LET facts == table[tag(cur)].facts
          IN  /\ Len(result'.ans) = Len(facts)
              /\ \A k \in DOMAIN facts :
                    Cardinality({i \in DOMAIN result'.ans :
                                    result'.ans[i] = facts[k]}) = 1]_vars

\* Query has returned the two facts of the root subgoal, the one found last
\* first
C28_Witness ==
    /\ Returned
    /\ cur = QueryXY
    /\ db[ancestor] = <<FactAB, FactBC>>
    /\ result.ans = <<FactBC.Head, FactAB.Head>>

(***************************************************************************)
(* C29: within one query, for every subgoal sg, every waiter w on sg and   *)
(* every fact f of sg, the rule of w is resolved against f exactly once:   *)
(* by the loop discoveredFact runs for f over the waiters registered       *)
(* before f was recorded, or by discoveredRule when it registers w and     *)
(* catches up on the facts recorded before; never twice, and never left    *)
(* out once the loops that are running have ended.                         *)
(***************************************************************************)
\* the pairs of a waiter and a fact of sg that a loop of discoveredFact still
\* running has yet to resolve
Pending(sg) ==
    {<<j, k>> \in (DOMAIN table[sg].waiters) \X (DOMAIN table[sg].facts) :
        \E f \in DOMAIN stack :
            /\ stack[f].kind = "fact"
            /\ stack[f].sg = sg
            /\ stack[f].lit = table[sg].facts[k]
            /\ stack[f].i <= j
            /\ j <= Len(stack[f].items)}

C29_ResolvedOnce ==
    pc = "run" =>
        \A sg \in DOMAIN table :
            /\ ~table[sg].twice
            /\ table[sg].resolved =
                  ((DOMAIN table[sg].waiters) \X (DOMAIN table[sg].facts))
                      \ Pending(sg)

\* the loop discoveredFact runs for a fact of a subgoal is under way, a
\* waiter has registered on that subgoal since the loop started, and its rule
\* has been resolved against that fact
C29_Witness ==
    /\ pc = "run"
    /\ \E f \in DOMAIN stack :
          LET sg == stack[f].sg
          IN  /\ stack[f].kind = "fact"
              /\ Len(table[sg].waiters) > Len(stack[f].items)
              /\ \E k \in DOMAIN table[sg].facts :
                    /\ table[sg].facts[k] = stack[f].lit
                    /\ <<Len(table[sg].waiters), k>> \in table[sg].resolved

(***************************************************************************)
(* C30: within one query the table holds at most one subgoal for a variant *)
(* tag and never replaces one: search is called for the root on a fresh    *)
(* table or for a body literal whose tag is not in the table, so that      *)
(* newSubgoal never overwrites an entry, and the facts and the waiters of  *)
(* every subgoal only grow.                                                *)
(***************************************************************************)
\* s is the start of t
IsPrefix(s, t) == Len(s) <= Len(t) /\ SubSeq(t, 1, Len(s)) = s

C30_TableOnlyGrows ==
    [][/\ (pc = "idle" /\ pc' = "run") =>
             (table = << >> /\ DOMAIN table' = {tag(cur')})
       /\ (pc = "run" /\ pc' = "run") =>
             /\ \A t \in DOMAIN table :
                   /\ t \in DOMAIN table'
                   /\ table'[t].target = table[t].target
                   /\ IsPrefix(table[t].facts, table'[t].facts)
                   /\ IsPrefix(table[t].waiters, table'[t].waiters)
             /\ \A t \in DOMAIN table' \ DOMAIN table :
                   /\ table'[t].facts = << >>
                   /\ Len(table'[t].waiters) = 1
             /\ (Len(stack') > Len(stack) /\ stack'[Len(stack')].kind = "search")
                   => stack'[Len(stack')].sg \notin DOMAIN table
       /\ pc' = "run" =>
             \A t \in DOMAIN table' : tag(table'[t].target) = t]_vars

\* a rule has met a subgoal for a variant of its first body literal that has
\* a fact and a waiter already, and has become its second waiter
C30_Witness ==
    /\ pc = "run"
    /\ Cardinality(DOMAIN table) >= 2
    /\ \E t \in DOMAIN table :
          /\ Len(table[t].waiters) >= 2
          /\ table[t].facts # << >>
          /\ table[t].waiters[2].rule.Body[1] # table[t].target

(***************************************************************************)
(* C31: when search has returned to Query no work is left and the table is *)
(* closed under resolution: for every subgoal, every stored clause whose   *)
(* renamed head unifies with the target, and every resolvent of a waiter's *)
(* rule with a fact of the subgoal, is accounted for: a fact is among the  *)
(* facts of the subgoal it is for, a rule waits on the subgoal of its      *)
(* first body literal.                                                     *)
(***************************************************************************)
\* the clause r discovered for the subgoal parent has left its trace in the
\* table; a waiting rule is compared up to the names of its variables
Accounted(parent, r) ==
    IF Len(r.Body) = 0
    THEN \E k \in DOMAIN table[parent].facts : table[parent].facts[k] = r.Head
    ELSE /\ tag(r.Body[1]) \in DOMAIN table
         /\ \E j \in DOMAIN table[tag(r.Body[1])].waiters :
               LET w == table[tag(r.Body[1])].waiters[j]
               IN  w.subgoal = parent /\ clauseTag(w.rule) = clauseTag(r)

\* what search discovers for the target from the stored clause c
Searched(target, c) ==
    LET rn == rename(c, fresh)
        e == unify(target, rn.c.Head)
    IN  [ok |-> e.ok, c |-> clauseSubst(rn.c, e.e)]

C31_Quiescence ==
    (pc = "run" /\ stack = << >>) =>
        \A sg \in DOMAIN table :
            LET t == table[sg]
            IN  /\ t.target.Pred \in DOMAIN db
                /\ \A i \in DOMAIN db[t.target.Pred] :
                      LET d == Searched(t.target, db[t.target.Pred][i])
                      IN  d.ok => Accounted(sg, d.c)
                /\ \A j \in DOMAIN t.waiters : \A k \in DOMAIN t.facts :
                      LET r == resolve(t.waiters[j].rule, t.facts[k], fresh)
                      IN  r.ok => Accounted(t.waiters[j].subgoal, r.c)

\* search has returned on a table of two subgoals or more in which a waiter's
\* rule resolves with a fact into a rule, and another into a fact
C31_Witness ==
    /\ pc = "run" /\ stack = << >>
    /\ Cardinality(DOMAIN table) >= 2
    /\ \E sg \in DOMAIN table :
       \E j \in DOMAIN table[sg].waiters : \E k \in DOMAIN table[sg].facts :
          LET r == resolve(table[sg].waiters[j].rule, table[sg].facts[k], fresh)
          IN  r.ok /\ Len(r.c.Body) > 0
    /\ \E sg \in DOMAIN table :
       \E j \in DOMAIN table[sg].waiters : \E k \in DOMAIN table[sg].facts :
          LET r == resolve(table[sg].waiters[j].rule, table[sg].facts[k], fresh)
          IN  r.ok /\ Len(r.c.Body) = 0

(***************************************************************************)
(* C32: during a query over a database of safe clauses every clause passed *)
(* to discovered is safe, so every literal passed to discoveredFact is     *)
(* ground and resolve is never called on a clause without a body: the      *)
(* panics of the identity tag and of resolve are never reached.            *)
(***************************************************************************)
\* the clause the innermost loop passes to discovered in its next turn, if
\* it passes one
NextDiscovered ==
    IF Top.kind = "search"
    THEN IF Top.i <= Len(Top.items)
         THEN LET d == Searched(Top.lit, Top.items[Top.i])
              IN  IF d.ok THEN {d.c} ELSE {}
         ELSE {}
    ELSE IF Top.kind = "fact"
    THEN IF Top.i <= Len(Top.items) /\ ~resolvePanics(Top.items[Top.i].rule)
         THEN LET r == resolve(Top.items[Top.i].rule, Top.lit, fresh)
              IN  IF r.ok THEN {r.c} ELSE {}
         ELSE {}
    ELSE {Top.items[k] : k \in DOMAIN Top.items}

C32_DiscoveredSafe ==
    /\ pc = "panic" =>
          \E sg \in DOMAIN table : ~IsDBPred(table[sg].target.Pred)
    /\ pc \in {"run", "panic"} =>
          /\ \A p \in DOMAIN db : \A i \in DOMAIN db[p] : Safe(db[p][i])
          /\ \A sg \in DOMAIN table :
                /\ \A k \in DOMAIN table[sg].facts :
                      ~lIDPanics(table[sg].facts[k])
                /\ \A j \in DOMAIN table[sg].waiters :
                      /\ ~resolvePanics(table[sg].waiters[j].rule)
                      /\ Safe(table[sg].waiters[j].rule)
          /\ \A f \in DOMAIN stack :
                /\ stack[f].kind = "fact" =>
                      /\ ~lIDPanics(stack[f].lit)
                      /\ \A j \in DOMAIN stack[f].items :
                            ~resolvePanics(stack[f].items[j].rule)
                /\ stack[f].kind = "rule" =>
                      \A k \in DOMAIN stack[f].items : Safe(stack[f].items[k])
    /\ (pc = "run" /\ stack # << >>) =>
          \A c \in NextDiscovered :
              Safe(c) /\ (Len(c.Body) = 0 => ~lIDPanics(c.Head))

\* the loop of discoveredFact is about to resolve a rule of two body literals
\* with a fact that no stored clause has as its head, which leaves a rule
C32_Witness ==
    /\ pc = "run" /\ stack # << >>
    /\ Top.kind = "fact" /\ Top.i <= Len(Top.items)
    /\ Len(Top.items[Top.i].rule.Body) = 2
    /\ \A c \in StoredClauses(db) : c.Head # Top.lit
    /\ \E c \in NextDiscovered : Len(c.Body) = 1

(***************************************************************************)
(* C33: in every state of a query, every waiter of every subgoal holds a   *)
(* rule with a body whose first literal is a variant of the subgoal's      *)
(* target, and so unifies with it, and the subgoal the waiter is for is in *)
(* the table.                                                              *)
(***************************************************************************)
C33_WaiterInvariant ==
    pc = "run" =>
        \A sg \in DOMAIN table : \A j \in DOMAIN table[sg].waiters :
            LET w == table[sg].waiters[j]
            IN  /\ Len(w.rule.Body) > 0
                /\ tag(w.rule.Body[1]) = tag(table[sg].target)
                /\ tag(w.rule.Body[1]) = sg
                /\ VariantLits(w.rule.Body[1], table[sg].target)
                /\ unify(w.rule.Body[1], renameLiteral(table[sg].target, fresh).l).ok
                /\ w.subgoal \in DOMAIN table

\* a subgoal has two waiters for two subgoals, one of them with a first body
\* literal that is a variant of the target and not the target itself
C33_Witness ==
    /\ pc = "run"
    /\ \E sg \in DOMAIN table :
          /\ \E i, j \in DOMAIN table[sg].waiters :
                table[sg].waiters[i].subgoal # table[sg].waiters[j].subgoal
          /\ \E j \in DOMAIN table[sg].waiters :
                table[sg].waiters[j].rule.Body[1] # table[sg].target

(***************************************************************************)
(* C34: the environment unify builds has no cycle after any turn of its    *)
(* loop: a turn adds at most one binding, for a variable that has none,    *)
(* to a chased term that is not that variable; no binding is ever changed, *)
(* and chase ends on a constant or on a variable without a binding.        *)
(***************************************************************************)
\* the term reached from t by following at most n bindings of e
RECURSIVE Walk(_, _, _)
Walk(t, e, n) ==
    IF n = 0 \/ t \notin DOMAIN e THEN t ELSE Walk(e[t], e, n - 1)

\* following bindings from any bound variable leaves the bound variables
Acyclic(e) ==
    \A v \in DOMAIN e : Walk(v, e, Cardinality(DOMAIN e)) \notin DOMAIN e

\* the turns of the loop of unify(a, b) from argument i on, each with the
\* environment before and after it
RECURSIVE EnvSteps(_, _, _, _)
EnvSteps(a, b, i, e) ==
    IF i > Len(a.Arg) THEN << >>
    ELSE LET r == unifyArg(a.Arg[i], b.Arg[i], e)
         IN  IF r.ok
             THEN <<[before |-> e, after |-> r.e]>> \o EnvSteps(a, b, i + 1, r.e)
             ELSE << >>

\* one turn has kept the environment free of cycles
StepAcyclic(s) ==
    LET added == (DOMAIN s.after) \ (DOMAIN s.before)
    IN  /\ Acyclic(s.after)
        /\ \A v \in DOMAIN s.before :
              v \in DOMAIN s.after /\ s.after[v] = s.before[v]
        /\ Cardinality(added) <= 1
        /\ \A v \in added :
              /\ IsVar(v)
              /\ s.after[v] # v
              /\ s.after[v] \notin DOMAIN s.before
        /\ \A t \in Terms :
              LET c == chase(t, s.after)
              IN  IsConst(c) \/ c \notin DOMAIN s.after

C34_EnvAcyclic ==
    (result.op = "unify" /\ cur.Pred = result.arg.Pred) =>
        LET steps == EnvSteps(cur, result.arg, 1, EmptyEnv)
        IN  \A k \in DOMAIN steps : StepAcyclic(steps[k])

\* unify has returned an environment with a chain of two bindings
C34_Witness ==
    /\ result.op = "unify" /\ result.err = ""
    /\ LET e == unify(cur, result.arg).e
       IN  \E v \in DOMAIN e : e[v] \in DOMAIN e /\ IsConst(e[e[v]])

(***************************************************************************)
(* C35  The variant tag of a clause.                                       *)
(***************************************************************************)
\* C35: two clauses have the same tag exactly when one bijective renaming
\* of variables, applied to the head and to every body literal, makes them
\* identical; so Retract and RetractOne remove no clause that is not a
\* variant of the clause they are called on.
C35_ClauseTagLaw ==
    /\ result.op = "tag" =>
          ((result.ans[1] = result.ans[2]) <=> VariantClauses(cur, result.arg))
    /\ (pc = "tag" /\ result.op \in {"Retract", "RetractOne"}
          /\ db[ancestor] = << >>) =>
          VariantClauses(cur, result.arg)

(***************************************************************************)
(* C36: Batch executes the assertions and retractions of its input in      *)
(* order and neither runs nor counts the queries; it stops at the first    *)
(* statement that fails and returns its error with the numbers of          *)
(* assertions and retractions attempted up to and including it, and no     *)
(* later statement is applied to the database; with no failure it returns  *)
(* no error and the numbers for the whole input.                           *)
(***************************************************************************)
\* the number of statements Batch gets to: up to the first that fails
Attempted(nodes) ==
    IF \E k \in DOMAIN nodes : Fails(nodes[k])
    THEN CHOOSE k \in DOMAIN nodes :
            Fails(nodes[k]) /\ \A j \in 1..(k - 1) : ~Fails(nodes[j])
    ELSE Len(nodes)

\* the error and the database a statement leaves when applied to d
Applying(d, node) ==
    IF node.kind = actionAssert THEN clauseAssert(d, node.arg)
    ELSE IF node.kind = actionRetract THEN clauseRetract(d, node.arg)
    ELSE [err |-> "", db |-> d]

\* the database after the statements k..n, the queries left out
RECURSIVE Applied(_, _, _, _)
Applied(d, nodes, k, n) ==
    IF k > n THEN d ELSE Applied(Applying(d, nodes[k]).db, nodes, k + 1, n)

C36_BatchStopsAtError ==
    [][/\ (cur.op = "Batch" /\ cur'.op = "none") =>
             LET nodes == cur.arg.nodeList
                 n == Attempted(nodes)
             IN  /\ result' = Batched(cur.arg,
                                      CountKind(nodes, n, actionAssert),
                                      CountKind(nodes, n, actionRetract),
                                      IF n = 0 THEN ""
                                      ELSE Applying(cur.before, nodes[n]).err)
                 /\ db' = Applied(cur.before, nodes, 1, n)
       /\ (cur.op = "none" /\ cur'.op = "none" /\ result'.op = "Batch"
              /\ cur'.calls = cur.calls + 1) =>
             /\ result'.arg.err # ""
             /\ result' = Batched(result'.arg, 0, 0, result'.arg.err)
             /\ db' = db
       /\ cur'.op = "Batch" => (pc' = "batch" /\ table' = makeQuery)]_vars

\* Batch has returned from =(alice, alice). ancestor(alice, bob). with the
\* error of the first statement, one assertion counted and the second clause
\* not stored
C36_Witness ==
    /\ result.op = "Batch"
    /\ result.arg.nodeList = <<Node(actionAssert, PrimFact),
                               Node(actionAssert, FactAB)>>
    /\ result.err = ErrPrimitive
    /\ result.assertions = 1
    /\ db[ancestor] = << >>

(***************************************************************************)
(* C37  The reference counts of the text driver.                           *)
(***************************************************************************)
\* the clause c mentions the predicate, constant or variable obj
MentionedIn(c, obj) ==
    \/ c.Head.Pred = obj
    \/ \E j \in DOMAIN c.Body : c.Body[j].Pred = obj
    \/ \E i \in DOMAIN Flat(c) : Flat(c)[i] = obj

\* C37: after any assert and retract statements of the driver, failed or
\* not, a term or predicate has an entry in refCount exactly when a clause
\* stored in the database mentions it, and every count stored is positive.
C37_RefCountInvariant ==
    \A obj \in Objects :
        /\ cur.refCount[obj] >= 0
        /\ cur.refCount[obj] > 0 <=>
              \E c \in StoredClauses(db) : MentionedIn(c, obj)

(***************************************************************************)
(* C38  The path program and the reference search of the tests.            *)
(***************************************************************************)
\* C38: over any set of edges, the query path(s, t)? returns an answer
\* exactly when the tests' search path(g, s, t) returns true.
C38_PathMatchesReference ==
    Returned =>
        ((result.ans # << >>) <=>
            path(graphOf(db[edge]), cur.Arg[1], cur.Arg[2]))

====
